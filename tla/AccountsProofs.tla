---------------------------- MODULE AccountsProofs ----------------------------
(***************************************************************************)
(* Proofs about Accounts, for any users, any number of requests at once    *)
(* and any number of them over time.                                       *)
(***************************************************************************)
EXTENDS Accounts, TLAPS

Ops == {"none", "list", "login", "create", "update", "reset", "delete"}

Places == {"start", "cm", "put-cm", "secret", "put-secret", "memory", "swap"}

Requests == [op : Ops, user : Users \cup {"nobody"}, to : States, at : Places,
             read : {{}} \cup [Users -> States] \cup (SUBSET Users)
                        \cup ([Users -> States] \X SUBSET Users),
             fresh : BOOLEAN]

StoreOK == srv \in [cm : [Users -> States], secret : SUBSET Users,
                    users : [Users -> States], pass : SUBSET Users,
                    apart : BOOLEAN, asked : Nat]

\* What a request of each kind is about, and how far it can be.
RequestOK(r) ==
    /\ r.op \in {"none", "list"} => r.at = "start"
    /\ r.op = "login" => r.at \in {"cm", "secret", "swap"}
    /\ r.op \in {"create", "delete"} => r.at # "swap"
    /\ r.op = "update" => r.at \in {"start", "cm", "put-cm", "memory"}
    /\ r.op = "reset" => r.at \in {"start", "secret", "put-secret", "memory"}
    /\ r.op \in {"create", "update", "reset", "delete"} => r.user \in Users
    /\ r.op = "create" => r.to = "on"
    /\ r.op = "update" => r.to \in {"on", "off"}
    /\ r.op = "delete" => r.to = "none"

RequestsOK == net \in [Slots -> Requests] /\ \A i \in Slots : RequestOK(net[i])

\* What a request has read, and what optimistic locking rests on: an object
\* nobody has written since is the object as it is stored.
ReadOK(r) ==
    /\ r.at = "put-cm" => r.read \in [Users -> States]
    /\ r.at = "put-secret" => r.read \in SUBSET Users
    /\ r.at = "put-cm" /\ r.fresh => r.read = srv.cm
    /\ r.at = "put-secret" /\ r.fresh => r.read = srv.secret
    /\ r.op = "login" /\ r.at = "secret" => r.read \in [Users -> States]
    /\ r.op = "login" /\ r.at = "secret" /\ r.fresh => r.read = srv.cm
    /\ r.at = "swap" => r.read \in [Users -> States] \X SUBSET Users
    /\ r.at = "swap" /\ r.fresh => r.read = <<srv.cm, srv.secret>>

ReadsOK == \A i \in Slots : ReadOK(net[i])

Safe == StoreOK /\ RequestsOK /\ ReadsOK

LEMMA InitSafe == Init => Safe
<1> SUFFICES ASSUME Init PROVE Safe
  OBVIOUS
<1>1. StoreOK
  BY DEF Init, StoreOK, States
<1>2. RequestsOK
  BY DEF Init, RequestsOK, RequestOK, Requests, Request, Idle, Ops, Places, States
<1>3. ReadsOK
  BY DEF Init, ReadsOK, ReadOK, Request, Idle
<1> QED
  BY <1>1, <1>2, <1>3 DEF Safe

\* A request that enters a free slot, or moves on alone, keeps the rest as it is.
LEMMA OneRequest ==
    ASSUME Safe, NEW i \in Slots, NEW r \in Requests, RequestOK(r), ReadOK(r),
           net' = [net EXCEPT ![i] = r], srv'.cm = srv.cm, srv'.secret = srv.secret
    PROVE  RequestsOK' /\ ReadsOK'
<1>1. net' \in [Slots -> Requests] /\ \A j \in Slots : net'[j] = IF j = i THEN r ELSE net[j]
  BY DEF Safe, RequestsOK
<1>2. RequestsOK'
  BY <1>1 DEF Safe, RequestsOK, RequestOK
<1>3. ReadsOK'
  BY <1>1 DEF Safe, ReadsOK, ReadOK
<1> QED
  BY <1>2, <1>3

\* The slot a new request takes is a free one.
LEMMA SendsToFree ==
    ASSUME net \in [Slots -> Requests], NEW r, Sends(r)
    PROVE  \E i \in Free : net' = [net EXCEPT ![i] = r]
BY DEF Sends

\* A request that starts.
LEMMA SendsSafe ==
    ASSUME Safe, NEW r \in Requests, RequestOK(r), r.at \in {"start", "cm"}, Sends(r),
           srv'.cm = srv.cm, srv'.secret = srv.secret
    PROVE  RequestsOK' /\ ReadsOK'
<1>1. PICK i \in Free : net' = [net EXCEPT ![i] = r]
  BY SendsToFree DEF Safe, RequestsOK
<1>2. ReadOK(r) /\ i \in Slots
  BY DEF ReadOK, Free
<1> QED
  BY <1>1, <1>2, OneRequest

LEMMA AsksStore ==
    ASSUME Safe, NEW r, Asks(r)
    PROVE  /\ StoreOK'
           /\ srv'.cm = srv.cm /\ srv'.secret = srv.secret
           /\ srv'.users = srv.users /\ srv'.pass = srv.pass
           /\ ~srv'.apart => ~srv.apart /\ ~Overlaps(r)
<1> DEFINE a == srv.apart \/ Overlaps(r)
<1>1. a \in BOOLEAN /\ (~a => ~srv.apart /\ ~Overlaps(r))
  OBVIOUS
<1>2. srv' = [srv EXCEPT !.asked = @ + 1, !.apart = a]
  BY DEF Asks
<1>3. srv \in [cm : [Users -> States], secret : SUBSET Users, users : [Users -> States],
               pass : SUBSET Users, apart : BOOLEAN, asked : Nat]
  BY DEF Safe, StoreOK
<1>4. srv.asked + 1 \in Nat
  BY <1>3
<1>5. srv'.apart = a
  BY <1>2, <1>3, Zenon
<1>6. StoreOK'
  BY <1>1, <1>2, <1>3, <1>4, Zenon DEF StoreOK
<1>7. /\ srv'.cm = srv.cm /\ srv'.secret = srv.secret
      /\ srv'.users = srv.users /\ srv'.pass = srv.pass
  BY <1>2, <1>3
<1> QED
  BY <1>1, <1>5, <1>6, <1>7

\* What the user asks for keeps the store as it is.
LEMMA UserSafe == ASSUME Safe, User PROVE Safe'
<1> DEFINE Started(r) == /\ r \in Requests /\ RequestOK(r) /\ r.at \in {"start", "cm"}
                         /\ Asks(r)
<1>1. ASSUME NEW r, Started(r) PROVE Safe'
  <2>1. StoreOK' /\ srv'.cm = srv.cm /\ srv'.secret = srv.secret
    BY <1>1, AsksStore
  <2>2. RequestsOK' /\ ReadsOK'
    BY <1>1, <2>1, SendsSafe DEF Asks
  <2> QED
    BY <2>1, <2>2 DEF Safe
<1> DEFINE Same == UNCHANGED <<net, srv>>
<1>2. ASSUME Same PROVE Safe'
  BY <1>2 DEF Safe, StoreOK, RequestsOK, RequestOK, ReadsOK, ReadOK
<1>3. ASSUME Retry PROVE Safe'
  <2> DEFINE r == Request("list", "nobody", "none", "start")
  <2>1. r \in Requests /\ RequestOK(r) /\ r.at = "start"
    BY DEF Request, Requests, RequestOK, Ops, Places, States
  <2>2. UNCHANGED srv /\ Sends(r)
    BY <1>3 DEF Retry
  <2>3. RequestsOK' /\ ReadsOK'
    BY <2>1, <2>2, SendsSafe
  <2> QED
    BY <2>2, <2>3 DEF Safe, StoreOK
<1>4. ASSUME NEW u \in Users, NEW op \in {"create", "update", "reset", "delete"},
             NEW to \in States, Asks(Request(op, u, to, "start")),
             op = "create" => to = "on", op = "update" => to \in {"on", "off"},
             op = "delete" => to = "none"
      PROVE  Safe'
  <2> DEFINE r == Request(op, u, to, "start")
  <2>1. Started(r)
    BY <1>4 DEF Request, Requests, RequestOK, Ops, Places
  <2> HIDE DEF r
  <2> QED
    BY <2>1, <1>1
<1>5. ASSUME Login PROVE Safe'
  <2> DEFINE r == Request("login", "nobody", "none", "cm")
  <2>1. Started(r)
    BY <1>5 DEF Login, Request, Requests, RequestOK, Ops, Places, States
  <2> HIDE DEF r
  <2> QED
    BY <2>1, <1>1
<1>6. ASSUME NEW u \in Users, handleCreate(u) PROVE Safe'
  BY <1>4, <1>6 DEF handleCreate, States
<1>7. ASSUME NEW u \in Users, handleToggleEnabled(u) PROVE Safe'
  <2>1. (IF ui.users[u] = "on" THEN "off" ELSE "on") \in {"on", "off"}
    OBVIOUS
  <2> QED
    BY <1>4, <1>7, <2>1 DEF handleToggleEnabled, States
<1>8. ASSUME NEW u \in Users, handleChangeRole(u) PROVE Safe'
  BY <1>4, <1>8 DEF handleChangeRole, States
<1>9. ASSUME NEW u \in Users, handleResetPassword(u) PROVE Safe'
  BY <1>4, <1>9 DEF handleResetPassword, States
<1>10. ASSUME NEW u \in Users, handleDelete(u) PROVE Safe'
  BY <1>4, <1>10 DEF handleDelete, States
<1> QED
  BY <1>2, <1>3, <1>5, <1>6, <1>7, <1>8, <1>9, <1>10 DEF User, OpenAdd, CancelAdd

\* Reading, refusing and going on change nothing that is stored; only the
\* request moves on.
LEMMA MovesSafe ==
    ASSUME Safe, NEW i \in Slots, NEW r \in Requests, RequestOK(r), ReadOK(r),
           net' = [net EXCEPT ![i] = r], StoreOK', srv'.cm = srv.cm, srv'.secret = srv.secret
    PROVE  Safe'
BY OneRequest DEF Safe

LEMMA IdleOK == Idle \in Requests /\ RequestOK(Idle) /\ ReadOK(Idle)
BY DEF Idle, Request, Requests, RequestOK, ReadOK, Ops, Places, States

LEMMA EndsSafe ==
    ASSUME Safe, NEW i \in Slots, net' = [net EXCEPT ![i] = Idle],
           StoreOK', srv'.cm = srv.cm, srv'.secret = srv.secret
    PROVE  Safe'
BY IdleOK, MovesSafe

LEMMA CheckSafe == ASSUME Safe, NEW i \in Slots, Check(i) PROVE Safe'
<1> DEFINE r == [net[i] EXCEPT !.at = Begin(net[i].op)]
<1>1. net[i] \in Requests /\ RequestOK(net[i]) /\ ReadOK(net[i])
  BY DEF Safe, RequestsOK, ReadsOK
<1>2. r \in Requests /\ RequestOK(r) /\ ReadOK(r)
  BY <1>1 DEF Check, At, Begin, Requests, RequestOK, ReadOK, Ops, Places
<1>3. net' = [net EXCEPT ![i] = r]
  BY DEF Check, To, Safe, RequestsOK
<1> QED
  BY <1>2, <1>3, MovesSafe DEF Check, Safe, StoreOK

LEMMA ReadCMSafe == ASSUME Safe, NEW i \in Slots, ReadCM(i) PROVE Safe'
<1> DEFINE r == [net[i] EXCEPT !.read = srv.cm, !.fresh = TRUE, !.at = "put-cm"]
<1>1. net[i] \in Requests /\ RequestOK(net[i]) /\ srv.cm \in [Users -> States]
  BY DEF Safe, RequestsOK, StoreOK
<1>2. r \in Requests /\ RequestOK(r) /\ ReadOK(r)
  BY <1>1 DEF ReadCM, At, Requests, RequestOK, ReadOK, Ops, Places
<1>3. net' = [net EXCEPT ![i] = r]
  BY DEF ReadCM, Safe, RequestsOK
<1> QED
  BY <1>2, <1>3, MovesSafe DEF ReadCM, Safe, StoreOK

LEMMA ReadSecretSafe == ASSUME Safe, NEW i \in Slots, ReadSecret(i) PROVE Safe'
<1> DEFINE r == [net[i] EXCEPT !.read = srv.secret, !.fresh = TRUE, !.at = "put-secret"]
<1>1. net[i] \in Requests /\ RequestOK(net[i]) /\ srv.secret \in SUBSET Users
  BY DEF Safe, RequestsOK, StoreOK
<1>2. r \in Requests /\ RequestOK(r) /\ ReadOK(r)
  BY <1>1 DEF ReadSecret, At, Requests, RequestOK, ReadOK, Ops, Places
<1>3. net' = [net EXCEPT ![i] = r]
  BY DEF ReadSecret, Safe, RequestsOK
<1> QED
  BY <1>2, <1>3, MovesSafe DEF ReadSecret, Safe, StoreOK

LEMMA CallFailsSafe == ASSUME Safe, NEW i \in Slots, CallFails(i) PROVE Safe'
<1> DEFINE r == IF net[i].op = "delete"
                THEN [net[i] EXCEPT !.read = {}, !.fresh = FALSE,
                                    !.at = IF @ \in {"cm", "put-cm"} THEN "secret" ELSE "memory"]
                ELSE Idle
<1>1. net[i] \in Requests /\ RequestOK(net[i])
  BY DEF Safe, RequestsOK
<1>2. CASE net[i].op = "delete"
  <2>1. r \in Requests /\ RequestOK(r) /\ ReadOK(r)
    BY <1>1, <1>2 DEF CallFails, Requests, RequestOK, ReadOK, Ops, Places
  <2>2. net' = [net EXCEPT ![i] = r]
    BY <1>2 DEF CallFails, Safe, RequestsOK
  <2> QED
    BY <2>1, <2>2, MovesSafe DEF CallFails, Safe, StoreOK
<1>3. CASE net[i].op # "delete"
  BY <1>3, EndsSafe DEF CallFails, Safe, StoreOK
<1> QED
  BY <1>2, <1>3

LEMMA LoadCMSafe == ASSUME Safe, NEW i \in Slots, LoadCM(i) PROVE Safe'
<1> DEFINE r == [net[i] EXCEPT !.read = srv.cm, !.fresh = TRUE, !.at = "secret"]
<1>1. net[i] \in Requests /\ RequestOK(net[i]) /\ srv.cm \in [Users -> States]
  BY DEF Safe, RequestsOK, StoreOK
<1>2. r \in Requests /\ RequestOK(r) /\ ReadOK(r)
  BY <1>1 DEF LoadCM, At, Requests, RequestOK, ReadOK, Ops, Places
<1>3. net' = [net EXCEPT ![i] = r]
  BY DEF LoadCM, Safe, RequestsOK
<1> QED
  BY <1>2, <1>3, MovesSafe DEF LoadCM, Safe, StoreOK

LEMMA LoadSecretSafe == ASSUME Safe, NEW i \in Slots, LoadSecret(i) PROVE Safe'
<1> DEFINE both == <<net[i].read, srv.secret>>
           r == [net[i] EXCEPT !.read = both, !.at = "swap"]
<1>1. net[i] \in Requests /\ RequestOK(net[i]) /\ ReadOK(net[i]) /\ srv.secret \in SUBSET Users
  BY DEF Safe, RequestsOK, ReadsOK, StoreOK
<1>2. net[i].op = "login" /\ net[i].at = "secret"
  BY DEF LoadSecret, At
<1>3. both \in [Users -> States] \X SUBSET Users
  BY <1>1, <1>2 DEF ReadOK
<1>4. net[i].fresh => both = <<srv.cm, srv.secret>>
  BY <1>1, <1>2 DEF ReadOK
<1>5. net' = [net EXCEPT ![i] = r]
  BY DEF LoadSecret, Safe, RequestsOK
<1> HIDE DEF both
<1>6. r \in Requests
  BY <1>1, <1>3 DEF Requests, Places
<1>7. /\ r.op = "login" /\ r.at = "swap" /\ r.read = both /\ r.fresh = net[i].fresh
  BY <1>1, <1>2 DEF Requests
<1>8. RequestOK(r) /\ ReadOK(r)
  BY <1>3, <1>4, <1>7 DEF RequestOK, ReadOK
<1> QED
  BY <1>5, <1>6, <1>8, MovesSafe DEF LoadSecret, Safe, StoreOK

\* What a swap does to the store.
LEMMA SwapStore ==
    ASSUME Safe, NEW i \in Slots, Swap(i)
    PROVE  /\ StoreOK' /\ srv'.cm = srv.cm /\ srv'.secret = srv.secret
           /\ srv'.users = net[i].read[1] /\ srv'.pass = net[i].read[2]
           /\ ~srv'.apart => ~srv.apart \/ (net[i].fresh /\ Busy = {i})
           /\ net[i].op = "login" /\ net' = [net EXCEPT ![i] = Idle]
           /\ net[i].fresh => net[i].read[1] = srv.cm /\ net[i].read[2] = srv.secret
<1> DEFINE a == srv.apart /\ ~(net[i].fresh /\ Busy = {i})
           us == net[i].read[1]
           ps == net[i].read[2]
<1>1. net[i].at = "swap" /\ net[i].op # "none" /\ RequestOK(net[i]) /\ ReadOK(net[i])
      /\ net[i] \in Requests
  BY DEF Swap, At, Safe, RequestsOK, ReadsOK
<1>2. net[i].read \in [Users -> States] \X SUBSET Users
  BY <1>1 DEF ReadOK
<1>3. us \in [Users -> States] /\ ps \in SUBSET Users
  BY <1>2
<1>4. net[i].fresh => net[i].read = <<srv.cm, srv.secret>>
  BY <1>1 DEF ReadOK
<1>5. net[i].fresh => us = srv.cm /\ ps = srv.secret
  BY <1>4
<1>6. a \in BOOLEAN /\ (~a => ~srv.apart \/ (net[i].fresh /\ Busy = {i}))
  OBVIOUS
<1>7. srv \in [cm : [Users -> States], secret : SUBSET Users, users : [Users -> States],
               pass : SUBSET Users, apart : BOOLEAN, asked : Nat]
  BY DEF Safe, StoreOK
<1>8. srv' = [srv EXCEPT !.users = us, !.pass = ps, !.apart = a]
  BY DEF Swap
<1>9. net[i].op = "login" /\ net' = [net EXCEPT ![i] = Idle]
  BY <1>1 DEF Swap, RequestOK, Requests, Ops
<1> HIDE DEF a, us, ps
<1>10. StoreOK' /\ srv'.cm = srv.cm /\ srv'.secret = srv.secret
       /\ srv'.users = us /\ srv'.pass = ps /\ srv'.apart = a
  BY <1>3, <1>6, <1>7, <1>8 DEF StoreOK
<1> QED
  BY <1>5, <1>6, <1>9, <1>10 DEF us, ps

LEMMA SwapSafe == ASSUME Safe, NEW i \in Slots, Swap(i) PROVE Safe'
BY SwapStore, EndsSafe

\* An object is written: whoever else has read it holds an old one now.
LEMMA WrittenSafe ==
    ASSUME Safe, NEW i \in Slots, NEW where \in {"put-cm", "put-secret"},
           NEW next \in {"secret", "memory"}, net' = Written(i, where, next),
           net[i].at = where, where = "put-secret" => next = "memory",
           net[i].op = "update" => next = "memory",
           StoreOK',
           where = "put-cm" => srv'.secret = srv.secret,
           where = "put-secret" => srv'.cm = srv.cm
    PROVE  Safe'
<1>1. net \in [Slots -> Requests] /\ \A j \in Slots : RequestOK(net[j]) /\ ReadOK(net[j])
  BY DEF Safe, RequestsOK, ReadsOK
<1>2. net' \in [Slots -> Requests]
  <2>1. ASSUME NEW j \in Slots
        PROVE  /\ [net[j] EXCEPT !.at = next, !.read = {}, !.fresh = FALSE] \in Requests
               /\ [net[j] EXCEPT !.fresh = FALSE] \in Requests
               /\ net[j] \in Requests
    <3>1. net[j] \in Requests
      BY <1>1
    <3> QED
      BY <3>1 DEF Requests, Places
  <2> QED
    BY <2>1 DEF Written
<1>3. ASSUME NEW j \in Slots, j # i
      PROVE  /\ net'[j].op = net[j].op /\ net'[j].user = net[j].user /\ net'[j].to = net[j].to
             /\ net'[j].at = net[j].at /\ net'[j].read = net[j].read
             /\ net'[j].fresh => net[j].fresh /\ net[j].at # where /\ net[j].op # "login"
  <2>1. net[j] \in Requests
    BY <1>1
  <2>2. net'[j] = IF net[j].at = where \/ net[j].op = "login"
                  THEN [net[j] EXCEPT !.fresh = FALSE] ELSE net[j]
    BY <1>3 DEF Written
  <2> QED
    BY <2>1, <2>2 DEF Requests
<1>4. /\ net'[i].op = net[i].op /\ net'[i].user = net[i].user /\ net'[i].to = net[i].to
      /\ net'[i].at = next /\ net'[i].fresh = FALSE
  <2>1. net[i] \in Requests
    BY <1>1
  <2>2. net'[i] = [net[i] EXCEPT !.at = next, !.read = {}, !.fresh = FALSE]
    BY DEF Written
  <2> QED
    BY <2>1, <2>2 DEF Requests
<1>5. ASSUME NEW j \in Slots PROVE RequestOK(net'[j])
  <2>1. RequestOK(net[j])
    BY <1>1
  <2>2. CASE j = i
    BY <1>4, <2>1, <2>2 DEF RequestOK
  <2>3. CASE j # i
    BY <1>3, <2>1, <2>3 DEF RequestOK
  <2> QED
    BY <2>2, <2>3
<1>6. ASSUME NEW j \in Slots PROVE ReadOK(net[j])'
  <2>1. ReadOK(net[j])
    BY <1>1
  <2>2. RequestOK(net[j]) /\ net[j] \in Requests
    BY <1>1
  <2>3. CASE j = i
    BY <1>4, <2>2, <2>3 DEF ReadOK, RequestOK
  <2>4. CASE j # i
    <3>1. net[j].at = "swap" => net[j].op = "login"
      BY <2>2 DEF RequestOK, Requests, Ops
    <3> QED
      BY <1>3, <2>1, <2>4, <3>1 DEF ReadOK
  <2> QED
    BY <2>3, <2>4
<1> QED
  BY <1>2, <1>5, <1>6 DEF Safe, RequestsOK, RequestOK, ReadsOK

\* The ConfigMap, as far as its accepted update goes.
LEMMA WriteCMStore ==
    ASSUME Safe, NEW i \in Slots, WriteCM(i)
    PROVE  /\ net[i].user \in Users /\ net[i].to \in States
           /\ net[i].op \in {"create", "update", "delete"}
           /\ srv' = [srv EXCEPT !.cm = [srv.cm EXCEPT ![net[i].user] = net[i].to]]
           /\ StoreOK'
<1>1. net[i] \in Requests /\ RequestOK(net[i]) /\ ReadOK(net[i])
  BY DEF Safe, RequestsOK, ReadsOK
<1>2. net[i].at = "put-cm" /\ net[i].fresh /\ net[i].op # "none"
  BY DEF WriteCM, At, Accepted
<1>3. net[i].user \in Users /\ net[i].to \in States /\ net[i].op \in {"create", "update", "delete"}
  BY <1>1, <1>2 DEF Requests, RequestOK, Ops
<1>4. srv' = [srv EXCEPT !.cm = [srv.cm EXCEPT ![net[i].user] = net[i].to]]
  BY <1>1, <1>2 DEF WriteCM, ReadOK
<1>5. StoreOK'
  BY <1>3, <1>4 DEF Safe, StoreOK
<1> QED
  BY <1>3, <1>4, <1>5

LEMMA WriteCMSafe == ASSUME Safe, NEW i \in Slots, WriteCM(i) PROVE Safe'
<1>1. StoreOK' /\ srv'.secret = srv.secret
  BY WriteCMStore DEF Safe, StoreOK
<1>2. net' = Written(i, "put-cm", AfterCM(net[i].op)) /\ net[i].at = "put-cm"
  BY DEF WriteCM, At
<1>3. /\ AfterCM(net[i].op) \in {"secret", "memory"}
      /\ net[i].op = "update" => AfterCM(net[i].op) = "memory"
  BY DEF AfterCM
<1> QED
  BY <1>1, <1>2, <1>3, WrittenSafe

\* The Secret, likewise.
LEMMA WriteSecretStore ==
    ASSUME Safe, NEW i \in Slots, WriteSecret(i)
    PROVE  /\ net[i].user \in Users
           /\ net[i].op \in {"create", "reset", "delete"}
           /\ srv' = [srv EXCEPT !.secret = IF net[i].op = "delete" THEN srv.secret \ {net[i].user}
                                                                   ELSE srv.secret \cup {net[i].user}]
           /\ StoreOK'
<1>1. net[i] \in Requests /\ RequestOK(net[i]) /\ ReadOK(net[i])
  BY DEF Safe, RequestsOK, ReadsOK
<1>2. net[i].at = "put-secret" /\ net[i].fresh /\ net[i].op # "none"
  BY DEF WriteSecret, At, Accepted
<1>3. net[i].user \in Users /\ net[i].op \in {"create", "reset", "delete"}
  BY <1>1, <1>2 DEF Requests, RequestOK, Ops
<1>4. srv' = [srv EXCEPT !.secret = IF net[i].op = "delete" THEN srv.secret \ {net[i].user}
                                                          ELSE srv.secret \cup {net[i].user}]
  BY <1>1, <1>2 DEF WriteSecret, ReadOK
<1>5. StoreOK'
  BY <1>3, <1>4 DEF Safe, StoreOK
<1> QED
  BY <1>3, <1>4, <1>5

LEMMA WriteSecretSafe == ASSUME Safe, NEW i \in Slots, WriteSecret(i) PROVE Safe'
<1>1. StoreOK' /\ srv'.cm = srv.cm
  BY WriteSecretStore DEF Safe, StoreOK
<1>2. net' = Written(i, "put-secret", "memory") /\ net[i].at = "put-secret"
  BY DEF WriteSecret, At
<1> QED
  BY <1>1, <1>2, WrittenSafe

LEMMA AnswerStore ==
    ASSUME Safe, NEW i \in Slots, Answer(i)
    PROVE  /\ net[i].user \in Users /\ net[i].to \in States
           /\ net[i].op \in {"create", "update", "reset", "delete"}
           /\ srv'.cm = srv.cm /\ srv'.secret = srv.secret /\ srv'.apart = srv.apart
           /\ srv'.users = IF net[i].op = "reset" THEN srv.users
                           ELSE [srv.users EXCEPT ![net[i].user] = net[i].to]
           /\ net[i].op \in {"create", "reset"} => srv'.pass = srv.pass \cup {net[i].user}
           /\ net[i].op = "delete" => srv'.pass = srv.pass \ {net[i].user}
           /\ net[i].op = "update" => srv'.pass = srv.pass
           /\ StoreOK'
<1> DEFINE r == net[i]
           us == IF r.op = "reset" THEN srv.users ELSE [srv.users EXCEPT ![r.user] = r.to]
           ps == CASE r.op \in {"create", "reset"} -> srv.pass \cup {r.user}
                   [] r.op = "delete" -> srv.pass \ {r.user}
                   [] OTHER -> srv.pass
<1>1. r \in Requests /\ RequestOK(r) /\ r.at = "memory" /\ r.op # "none"
  BY DEF Safe, RequestsOK, Answer, At
<1>2. r.user \in Users /\ r.to \in States /\ r.op \in {"create", "update", "reset", "delete"}
  BY <1>1 DEF Requests, RequestOK, Ops
<1>3. srv' = [srv EXCEPT !.users = us, !.pass = ps]
  BY DEF Answer
<1>4. srv \in [cm : [Users -> States], secret : SUBSET Users, users : [Users -> States],
               pass : SUBSET Users, apart : BOOLEAN, asked : Nat]
  BY DEF Safe, StoreOK
<1>5. us \in [Users -> States]
  BY <1>2, <1>4
<1>6. /\ r.op \in {"create", "reset"} => ps = srv.pass \cup {r.user}
      /\ r.op = "delete" => ps = srv.pass \ {r.user}
      /\ r.op = "update" => ps = srv.pass
  BY <1>2
<1>7. ps \in SUBSET Users
  BY <1>2, <1>4, <1>6
<1> HIDE DEF us, ps
<1>8. StoreOK' /\ srv'.users = us /\ srv'.pass = ps
  BY <1>3, <1>4, <1>5, <1>7 DEF StoreOK
<1>9. srv'.cm = srv.cm /\ srv'.secret = srv.secret /\ srv'.apart = srv.apart
  BY <1>3, <1>4
<1> QED
  BY <1>2, <1>6, <1>8, <1>9 DEF us

LEMMA AnswerSafe == ASSUME Safe, NEW i \in Slots, Answer(i) PROVE Safe'
<1> DEFINE q == IF net[i].op = "reset" THEN Idle ELSE Request("list", "nobody", "none", "start")
<1>1. q \in Requests /\ RequestOK(q) /\ ReadOK(q)
  BY DEF Idle, Request, Requests, RequestOK, ReadOK, Ops, Places, States
<1>2. net' = [net EXCEPT ![i] = q]
  BY DEF Answer
<1> QED
  BY <1>1, <1>2, AnswerStore, MovesSafe

\* Stored accounts and what the requests know of them stay consistent.
LEMMA NextSafe == ASSUME Safe, [Next]_vars PROVE Safe'
<1>1. CASE User
  BY <1>1, UserSafe
<1>2. ASSUME NEW i \in Slots, Serve(i) PROVE Safe'
  <2>1. CASE Refuse(i) \/ LoadFails(i)
    BY <2>1, EndsSafe DEF Refuse, LoadFails, Safe, StoreOK
  <2> QED
    BY <1>2, <2>1, CheckSafe, ReadCMSafe, ReadSecretSafe, WriteCMSafe, WriteSecretSafe,
       CallFailsSafe, AnswerSafe, LoadCMSafe, LoadSecretSafe, SwapSafe DEF Serve
<1>3. CASE Deliver
  BY <1>3, EndsSafe DEF Deliver, Answers, ShowUsers, ShowError, Safe, StoreOK
<1>4. CASE UNCHANGED vars
  BY <1>4 DEF vars, Safe, StoreOK, RequestsOK, RequestOK, ReadsOK, ReadOK
<1> QED
  BY <1>1, <1>2, <1>3, <1>4 DEF Next

(* Whatever overlaps or fails, what is stored and the copies are accounts   *)
(* and passwords, a request is at a stage of its kind, and an object that   *)
(* nobody has written since it was read is the stored one (store.go).       *)
THEOREM AccountsSafe == Spec => []Safe
<1> QED
  BY InitSafe, NextSafe, PTL DEF Spec

LEMMA SafeStep == ASSUME Safe, [Next]_vars PROVE OnlyDeleteRemoves
<1> SUFFICES ASSUME NEW u \in Users,
                    \/ srv.cm[u] # "none" /\ srv'.cm[u] = "none"
                    \/ u \in srv.secret /\ u \notin srv'.secret
             PROVE  \E i \in Slots : net[i].op = "delete" /\ net[i].user = u
  BY DEF OnlyDeleteRemoves
<1> DEFINE Same == srv'.cm = srv.cm /\ srv'.secret = srv.secret
<1>1. CASE User
  <2>1. ASSUME NEW r, Asks(r) PROVE Same
    BY <2>1, AsksStore
  <2> QED
    BY <1>1, <2>1 DEF User, Retry, OpenAdd, CancelAdd, handleCreate, handleToggleEnabled,
       handleChangeRole, handleResetPassword, handleDelete, Login
<1>2. ASSUME NEW i \in Slots, WriteCM(i) PROVE net[i].op = "delete" /\ net[i].user = u
  <2>1. /\ srv'.cm = [srv.cm EXCEPT ![net[i].user] = net[i].to]
        /\ srv'.secret = srv.secret
        /\ net[i].op \in {"create", "update", "delete"}
    BY <1>2, WriteCMStore DEF Safe, StoreOK
  <2>2. net[i].user = u /\ net[i].to = "none"
    BY <2>1 DEF Safe, StoreOK
  <2>3. RequestOK(net[i])
    BY DEF Safe, RequestsOK
  <2> QED
    BY <2>1, <2>2, <2>3 DEF RequestOK
<1>3. ASSUME NEW i \in Slots, WriteSecret(i) PROVE net[i].op = "delete" /\ net[i].user = u
  <2>1. /\ srv'.secret = IF net[i].op = "delete" THEN srv.secret \ {net[i].user}
                                                 ELSE srv.secret \cup {net[i].user}
        /\ srv'.cm = srv.cm
    BY <1>3, WriteSecretStore DEF Safe, StoreOK
  <2> QED
    BY <2>1
<1>4. ASSUME NEW i \in Slots, Serve(i), ~WriteCM(i), ~WriteSecret(i) PROVE Same
  BY <1>4, AnswerStore, SwapStore DEF Serve, Check, Refuse, ReadCM, ReadSecret, CallFails, LoadCM,
     LoadSecret, LoadFails, Safe, StoreOK
<1>5. CASE Deliver \/ UNCHANGED vars
  BY <1>5 DEF Deliver, Answers, ShowUsers, ShowError, vars
<1> QED
  BY <1>1, <1>2, <1>3, <1>4, <1>5 DEF Next

(* No account and no password is lost but by its own deletion, however many *)
(* requests write the two objects back at once (store.go).                  *)
THEOREM NothingIsTakenAway == Spec => [][OnlyDeleteRemoves]_vars
<1>1. Safe /\ [Next]_vars => [OnlyDeleteRemoves]_vars
  BY SafeStep
<1> QED
  BY <1>1, AccountsSafe, PTL DEF Spec

----------------------------------------------------------------------------
(* The copies in memory.  While requests are about different users, what is *)
(* stored and what is in memory of a user differ by what the request about  *)
(* that user has written so far, and by no more; a login is alone.          *)

InCM(r) == \/ r.op \in {"create", "delete"} /\ r.at \in {"secret", "put-secret", "memory"}
           \/ r.op = "update" /\ r.at = "memory"

InSecret(r) == r.at = "memory" /\ r.op \in {"create", "reset", "delete"}

Halfway(r) ==
    /\ r.user \in Users =>
          /\ srv.cm[r.user] = IF InCM(r) THEN r.to ELSE srv.users[r.user]
          /\ r.user \in srv.secret <=> IF InSecret(r) THEN r.op # "delete" ELSE r.user \in srv.pass
    /\ r.op = "login" /\ r.at # "cm" => r.fresh

Alike(u) == srv.cm[u] = srv.users[u] /\ (u \in srv.secret <=> u \in srv.pass)

Together == ~srv.apart =>
    /\ \A i, j \in Busy : i # j => net[i].op # "login" /\ net[i].user # net[j].user
    /\ \A i \in Busy : Halfway(net[i])
    /\ \A u \in Users : (\A i \in Busy : net[i].user # u) => Alike(u)

LEMMA InitTogether == Init => Together
BY DEF Init, Together, Busy, Alike, Request, Idle

LEMMA AsksTogether ==
    ASSUME Safe, Together, NEW r \in Requests, r.op \notin {"none", "list"},
           r.at = IF r.op = "login" THEN "cm" ELSE "start", Asks(r)
    PROVE  Together'
<1> SUFFICES ASSUME ~srv'.apart PROVE Together'
  BY DEF Together
<1>1. ~srv.apart /\ ~Overlaps(r) /\ srv'.cm = srv.cm /\ srv'.secret = srv.secret
      /\ srv'.users = srv.users /\ srv'.pass = srv.pass
  BY AsksStore
<1>2. PICK k \in Free : net' = [net EXCEPT ![k] = r]
  BY SendsToFree DEF Asks, Safe, RequestsOK
<1>3. k \in Slots /\ k \notin Busy /\ net \in [Slots -> Requests]
  BY DEF Free, Busy, Safe, RequestsOK
<1>4. Busy' = Busy \cup {k} /\ net'[k] = r /\ \A i \in Busy : net'[i] = net[i]
  BY <1>2, <1>3 DEF Busy
<1>5. \A i \in Busy : r.op # "login" /\ net[i].op # "login" /\ net[i].user # r.user
  BY <1>1 DEF Overlaps
<1>6. /\ \A i, j \in Busy : i # j => net[i].op # "login" /\ net[i].user # net[j].user
      /\ \A i \in Busy : Halfway(net[i])
      /\ \A u \in Users : (\A i \in Busy : net[i].user # u) => Alike(u)
  BY <1>1 DEF Together
<1>7. \A i, j \in Busy' : i # j => net'[i].op # "login" /\ net'[i].user # net'[j].user
  BY <1>3, <1>4, <1>5, <1>6
<1>8. ASSUME NEW i \in Busy' PROVE Halfway(net[i])'
  <2>1. CASE i \in Busy
    BY <1>1, <1>4, <1>6, <2>1 DEF Halfway, InCM, InSecret
  <2>2. CASE i = k
    <3>1. r.user \in Users => Alike(r.user)
      BY <1>5, <1>6
    <3> QED
      BY <1>1, <1>4, <2>2, <3>1 DEF Halfway, InCM, InSecret, Alike
  <2> QED
    BY <1>4, <2>1, <2>2
<1>9. ASSUME NEW u \in Users, \A i \in Busy' : net'[i].user # u PROVE Alike(u)'
  BY <1>1, <1>4, <1>6, <1>9 DEF Alike
<1> QED
  BY <1>7, <1>8, <1>9 DEF Together

\* What a request about one user leaves alone.
Elsewhere(i) ==
    /\ \A j \in Slots : j # i =>
           /\ net'[j].op = net[j].op /\ net'[j].user = net[j].user
           /\ net'[j].to = net[j].to /\ net'[j].at = net[j].at
    /\ \A u \in Users : u # net[i].user =>
           /\ srv'.cm[u] = srv.cm[u] /\ srv'.users[u] = srv.users[u]
           /\ u \in srv'.secret <=> u \in srv.secret
           /\ u \in srv'.pass <=> u \in srv.pass

LEMMA OthersStay ==
    ASSUME Safe, Together, ~srv.apart, NEW i \in Busy, net[i].op # "login", Elsewhere(i)
    PROVE  \A j \in Busy : j # i => /\ net'[j].op = net[j].op /\ net'[j].user = net[j].user
                                    /\ net[j].op # "login" /\ net[j].user # net[i].user
                                    /\ Halfway(net[j])'
<1> SUFFICES ASSUME NEW j \in Busy, j # i
             PROVE  /\ net'[j].op = net[j].op /\ net'[j].user = net[j].user
                    /\ net[j].op # "login" /\ net[j].user # net[i].user
                    /\ Halfway(net[j])'
  OBVIOUS
<1>1. net[j].op # "login" /\ net[j].user # net[i].user /\ Halfway(net[j])
  BY DEF Together
<1>2. /\ net'[j].op = net[j].op /\ net'[j].user = net[j].user
      /\ net'[j].to = net[j].to /\ net'[j].at = net[j].at
  BY DEF Elsewhere, Busy
<1>3. Halfway(net[j])'
  <2>1. CASE net[j].user \notin Users
    BY <1>1, <1>2, <2>1 DEF Halfway
  <2>2. CASE net[j].user \in Users
    <3>1. /\ srv'.cm[net[j].user] = srv.cm[net[j].user]
          /\ srv'.users[net[j].user] = srv.users[net[j].user]
          /\ net[j].user \in srv'.secret <=> net[j].user \in srv.secret
          /\ net[j].user \in srv'.pass <=> net[j].user \in srv.pass
      BY <1>1, <2>2 DEF Elsewhere
    <3> QED
      BY <1>1, <1>2, <2>2, <3>1 DEF Halfway, InCM, InSecret
  <2> QED
    BY <2>1, <2>2
<1> QED
  BY <1>1, <1>2, <1>3

\* A request goes on.
LEMMA GoesOn ==
    ASSUME Safe, Together, ~srv.apart, NEW i \in Busy, net[i].op # "login", Elsewhere(i),
           net'[i].op = net[i].op, net'[i].user = net[i].user, Halfway(net[i])'
    PROVE  Together'
<1>1. Busy' = Busy
  BY DEF Busy, Elsewhere
<1>2. \A j \in Busy : j # i => /\ net'[j].op = net[j].op /\ net'[j].user = net[j].user
                               /\ Halfway(net[j])'
  BY OthersStay
<1>3. \A j \in Busy' : Halfway(net[j])'
  BY <1>1, <1>2
<1>4. \A j, k \in Busy' : j # k => net'[j].op # "login" /\ net'[j].user # net'[k].user
  BY <1>1, <1>2 DEF Together
<1>5. ASSUME NEW u \in Users, \A j \in Busy' : net'[j].user # u PROVE Alike(u)'
  <2>1. \A j \in Busy : net[j].user # u
    BY <1>1, <1>2, <1>5
  <2>2. Alike(u) /\ u # net[i].user
    BY <2>1 DEF Together
  <2> QED
    BY <2>2 DEF Alike, Elsewhere
<1> QED
  BY <1>3, <1>4, <1>5 DEF Together

\* A request ends.
LEMMA Leaves ==
    ASSUME Safe, Together, ~srv.apart, NEW i \in Busy, net[i].op # "login", Elsewhere(i),
           net'[i].op \in {"none", "list"}, \A u \in Users : u = net[i].user => Alike(u)'
    PROVE  Together'
<1>1. Busy' = Busy \ {i}
  BY DEF Busy, Elsewhere
<1>2. \A j \in Busy : j # i => /\ net'[j].op = net[j].op /\ net'[j].user = net[j].user
                               /\ Halfway(net[j])'
  BY OthersStay
<1>3. \A j \in Busy' : Halfway(net[j])'
  BY <1>1, <1>2
<1>4. \A j, k \in Busy' : j # k => net'[j].op # "login" /\ net'[j].user # net'[k].user
  BY <1>1, <1>2 DEF Together
<1>5. ASSUME NEW u \in Users, \A j \in Busy' : net'[j].user # u PROVE Alike(u)'
  <2>1. CASE u = net[i].user
    BY <2>1
  <2>2. CASE u # net[i].user
    <3>1. \A j \in Busy : net[j].user # u
      BY <1>1, <1>2, <1>5, <2>2
    <3>2. Alike(u)
      BY <3>1 DEF Together
    <3> QED
      BY <2>2, <3>2 DEF Alike, Elsewhere
  <2> QED
    BY <2>1, <2>2
<1> QED
  BY <1>3, <1>4, <1>5 DEF Together

\* With nothing under way, all is alike.
LEMMA AllAlike ==
    ASSUME Busy' = {}, srv'.users = srv'.cm, srv'.pass = srv'.secret
    PROVE  Together'
BY DEF Together, Alike

\* A login, which is alone unless the copies are apart.
LEMMA LoginTogether ==
    ASSUME Safe, Together, NEW i \in Slots, LoadCM(i) \/ LoadSecret(i) \/ Swap(i) \/ LoadFails(i)
    PROVE  Together'
<1> SUFFICES ASSUME ~srv'.apart PROVE Together'
  BY DEF Together
<1>1. net \in [Slots -> Requests] /\ net[i] \in Requests /\ RequestOK(net[i])
  BY DEF Safe, RequestsOK
<1>2. net[i].op = "login"
  BY SwapStore DEF LoadCM, LoadSecret, LoadFails
<1>3. i \in Busy
  BY <1>2 DEF Busy
<1>4. ~srv.apart => Busy = {i}
  BY <1>2, <1>3 DEF Together
<1>5. CASE Swap(i)
  <2>1. /\ ~srv.apart \/ (net[i].fresh /\ Busy = {i})
        /\ net' = [net EXCEPT ![i] = Idle]
        /\ net[i].fresh => srv'.users = srv'.cm /\ srv'.pass = srv'.secret
    BY <1>5, SwapStore
  <2>2. Busy = {i}
    BY <1>4, <2>1
  <2>3. net[i].fresh
    BY <1>2, <1>3, <1>5, <2>1 DEF Together, Halfway, Swap, At
  <2>4. Busy' = {}
    BY <1>1, <2>1, <2>2 DEF Busy, Idle, Request
  <2> QED
    BY <2>1, <2>3, <2>4, AllAlike
<1>6. CASE LoadFails(i)
  <2>1. net' = [net EXCEPT ![i] = Idle] /\ UNCHANGED srv
    BY <1>6 DEF LoadFails
  <2>2. Busy' = {}
    BY <1>1, <1>4, <2>1 DEF Busy, Idle, Request
  <2>3. Halfway(net[i]) /\ \A u \in Users : net[i].user # u => Alike(u)
    BY <1>3, <1>4, <2>1 DEF Together
  <2>4. \A u \in Users : Alike(u)
    BY <1>2, <2>3 DEF Halfway, InCM, InSecret, Alike, RequestOK
  <2> QED
    BY <2>1, <2>2, <2>4 DEF Together, Alike
<1>7. CASE LoadCM(i) \/ LoadSecret(i)
  <2>1. /\ UNCHANGED srv /\ net'[i].op = "login" /\ net'[i].user = net[i].user /\ net'[i].fresh
        /\ net'[i].at \in {"secret", "swap"}
        /\ \A j \in Slots : j # i => net'[j] = net[j]
    <3>1. CASE LoadCM(i)
      BY <1>1, <1>2, <3>1 DEF LoadCM, Requests
    <3>2. CASE LoadSecret(i)
      <4>1. net[i].fresh
        BY <1>3, <3>2 DEF Together, Halfway, LoadSecret, At
      <4> QED
        BY <1>1, <1>2, <3>2, <4>1 DEF LoadSecret, Requests
    <3> QED
      BY <1>7, <3>1, <3>2
  <2>2. Busy' = {i} /\ ~srv.apart /\ Busy = {i}
    BY <1>4, <2>1 DEF Busy
  <2>3. Halfway(net[i]) /\ \A u \in Users : net[i].user # u => Alike(u)
    BY <1>3, <2>2 DEF Together
  <2>4. Halfway(net[i])'
    BY <1>2, <2>1, <2>3 DEF Halfway, InCM, InSecret
  <2>5. \A u \in Users : net'[i].user # u => Alike(u)'
    BY <2>1, <2>3 DEF Alike
  <2> QED
    BY <2>2, <2>4, <2>5 DEF Together
<1> QED
  BY <1>5, <1>6, <1>7

\* A step of a request about a user.
LEMMA ServeTogether ==
    ASSUME Safe, Together, NEW i \in Slots,
           \/ Check(i) \/ Refuse(i) \/ ReadCM(i) \/ ReadSecret(i) \/ WriteCM(i) \/ WriteSecret(i)
           \/ CallFails(i) \/ Answer(i)
    PROVE  Together'
<1> SUFFICES ASSUME ~srv'.apart PROVE Together'
  BY DEF Together
<1>1. net \in [Slots -> Requests] /\ net[i] \in Requests /\ RequestOK(net[i]) /\ ReadOK(net[i])
  BY DEF Safe, RequestsOK, ReadsOK
<1>2. ~CallFails(i)
  BY DEF CallFails, Safe, StoreOK
<1>3. ~srv.apart
  <2>1. WriteCM(i) => srv'.apart = srv.apart
    BY WriteCMStore DEF Safe, StoreOK
  <2>2. WriteSecret(i) => srv'.apart = srv.apart
    BY WriteSecretStore DEF Safe, StoreOK
  <2> QED
    BY <1>2, <2>1, <2>2, AnswerStore DEF Check, Refuse, ReadCM, ReadSecret
<1>4. net[i].op \in {"create", "update", "reset", "delete"}
  <2>1. WriteCM(i) => net[i].op \in {"create", "update", "delete"}
    BY WriteCMStore
  <2>2. WriteSecret(i) => net[i].op \in {"create", "reset", "delete"}
    BY WriteSecretStore
  <2> QED
    BY <1>1, <1>2, <2>1, <2>2, AnswerStore
    DEF Check, Refuse, ReadCM, ReadSecret, At, RequestOK, Requests, Ops
<1>5. i \in Busy /\ net[i].op # "login" /\ net[i].user \in Users
  BY <1>1, <1>4 DEF Busy, RequestOK
<1>6. Halfway(net[i])
  BY <1>3, <1>5 DEF Together
<1>7. CASE Refuse(i)
  <2>1. net' = [net EXCEPT ![i] = Idle] /\ UNCHANGED srv /\ net[i].at = "start"
    BY <1>7 DEF Refuse, At
  <2>2. net'[i].op = "none" /\ Elsewhere(i)
    BY <1>1, <2>1 DEF Idle, Request, Elsewhere
  <2>3. \A u \in Users : u = net[i].user => Alike(u)'
    BY <1>5, <1>6, <2>1 DEF Halfway, InCM, InSecret, Alike
  <2> QED
    BY <1>3, <1>5, <2>2, <2>3, Leaves
<1>8. CASE Answer(i)
  <2>1. net'[i].op \in {"none", "list"} /\ net[i].at = "memory"
        /\ \A j \in Slots : j # i => net'[j] = net[j]
    BY <1>1, <1>8 DEF Answer, At, Idle, Request
  <2>2. Elsewhere(i)
    BY <1>4, <1>8, <2>1, AnswerStore DEF Elsewhere, Safe, StoreOK
  <2>3. \A u \in Users : u = net[i].user => Alike(u)'
    <3> DEFINE u == net[i].user
    <3>1. /\ srv'.cm = srv.cm /\ srv'.secret = srv.secret
          /\ srv'.users = IF net[i].op = "reset" THEN srv.users
                          ELSE [srv.users EXCEPT ![u] = net[i].to]
          /\ net[i].op \in {"create", "reset"} => srv'.pass = srv.pass \cup {u}
          /\ net[i].op = "delete" => srv'.pass = srv.pass \ {u}
          /\ net[i].op = "update" => srv'.pass = srv.pass
      BY <1>8, AnswerStore
    <3>2. /\ srv.cm[u] = IF net[i].op = "reset" THEN srv.users[u] ELSE net[i].to
          /\ u \in srv.secret <=> IF net[i].op = "update" THEN u \in srv.pass ELSE net[i].op # "delete"
      BY <1>4, <1>5, <1>6, <2>1 DEF Halfway, InCM, InSecret
    <3>3. srv.users \in [Users -> States]
      BY DEF Safe, StoreOK
    <3>4. u \in Users
      BY <1>5
    <3> HIDE DEF u
    <3>5. srv'.cm[u] = srv'.users[u]
      BY <3>1, <3>2, <3>3, <3>4
    <3>6. u \in srv'.secret <=> u \in srv'.pass
      BY <1>4, <3>1, <3>2
    <3> QED
      BY <3>5, <3>6 DEF u, Alike
  <2> QED
    BY <1>3, <1>5, <2>1, <2>2, <2>3, Leaves
<1>9. CASE Check(i) \/ ReadCM(i) \/ ReadSecret(i)
  <2>1. /\ net'[i].op = net[i].op /\ net'[i].user = net[i].user /\ net'[i].to = net[i].to
        /\ UNCHANGED srv
        /\ \A j \in Slots : j # i => net'[j] = net[j]
    BY <1>1, <1>9 DEF Check, To, ReadCM, ReadSecret, Requests
  <2>2. Elsewhere(i)
    BY <2>1 DEF Elsewhere
  <2>3. \/ net[i].at = "start" /\ net'[i].at = Begin(net[i].op)
        \/ net[i].at = "cm" /\ net'[i].at = "put-cm"
        \/ net[i].at = "secret" /\ net'[i].at = "put-secret"
    BY <1>1, <1>9 DEF Check, To, At, ReadCM, ReadSecret, Requests
  <2>4. (InCM(net[i])' <=> InCM(net[i])) /\ (InSecret(net[i])' <=> InSecret(net[i]))
    BY <1>1, <1>4, <2>1, <2>3 DEF InCM, InSecret, Begin, RequestOK
  <2>5. Halfway(net[i])'
    BY <1>5, <1>6, <2>1, <2>4 DEF Halfway
  <2> QED
    BY <1>3, <1>5, <2>1, <2>2, <2>5, GoesOn
<1>10. ASSUME NEW where, NEW next, net' = Written(i, where, next)
       PROVE  /\ net'[i].op = net[i].op /\ net'[i].user = net[i].user /\ net'[i].to = net[i].to
              /\ net'[i].at = next
              /\ \A j \in Slots : j # i =>
                     /\ net'[j].op = net[j].op /\ net'[j].user = net[j].user
                     /\ net'[j].to = net[j].to /\ net'[j].at = net[j].at
  <2>1. net'[i] = [net[i] EXCEPT !.at = next, !.read = {}, !.fresh = FALSE]
    BY <1>10 DEF Written
  <2>2. ASSUME NEW j \in Slots, j # i
        PROVE  /\ net'[j].op = net[j].op /\ net'[j].user = net[j].user
               /\ net'[j].to = net[j].to /\ net'[j].at = net[j].at
    <3>1. net'[j] = IF net[j].at = where \/ net[j].op = "login"
                    THEN [net[j] EXCEPT !.fresh = FALSE] ELSE net[j]
      BY <1>10, <2>2 DEF Written
    <3> QED
      BY <1>1, <3>1 DEF Requests
  <2> QED
    BY <1>1, <2>1, <2>2 DEF Requests
<1>11. CASE WriteCM(i)
  <2>1. /\ net'[i].op = net[i].op /\ net'[i].user = net[i].user /\ net'[i].to = net[i].to
        /\ net'[i].at = AfterCM(net[i].op) /\ net[i].at = "put-cm"
    BY <1>10, <1>11 DEF WriteCM, At
  <2>2. /\ srv'.cm = [srv.cm EXCEPT ![net[i].user] = net[i].to]
        /\ srv'.secret = srv.secret /\ srv'.users = srv.users /\ srv'.pass = srv.pass
        /\ net[i].op \in {"create", "update", "delete"}
        /\ srv.cm \in [Users -> States]
    BY <1>11, WriteCMStore DEF Safe, StoreOK
  <2>3. Elsewhere(i)
    BY <1>10, <1>11, <2>2 DEF WriteCM, Elsewhere
  <2>4. Halfway(net[i])'
    BY <1>5, <1>6, <2>1, <2>2 DEF Halfway, InCM, InSecret, AfterCM
  <2> QED
    BY <1>3, <1>5, <2>1, <2>3, <2>4, GoesOn
<1>12. CASE WriteSecret(i)
  <2>1. /\ net'[i].op = net[i].op /\ net'[i].user = net[i].user /\ net'[i].to = net[i].to
        /\ net'[i].at = "memory" /\ net[i].at = "put-secret"
    BY <1>10, <1>12 DEF WriteSecret, At
  <2>2. /\ srv'.secret = IF net[i].op = "delete" THEN srv.secret \ {net[i].user}
                                                 ELSE srv.secret \cup {net[i].user}
        /\ srv'.cm = srv.cm /\ srv'.users = srv.users /\ srv'.pass = srv.pass
        /\ net[i].op \in {"create", "reset", "delete"}
    BY <1>12, WriteSecretStore DEF Safe, StoreOK
  <2>3. Elsewhere(i)
    BY <1>10, <1>12, <2>2 DEF WriteSecret, Elsewhere
  <2>4. Halfway(net[i])'
    BY <1>5, <1>6, <2>1, <2>2 DEF Halfway, InCM, InSecret
  <2> QED
    BY <1>3, <1>5, <2>1, <2>3, <2>4, GoesOn
<1> QED
  BY <1>2, <1>7, <1>8, <1>9, <1>11, <1>12

\* The list of users is no business of the store.
LEMMA ListsTogether ==
    ASSUME Safe, Together, UNCHANGED srv,
           \E i \in Slots, r \in Requests :
               /\ net[i].op \in {"none", "list"} /\ r.op \in {"none", "list"}
               /\ net' = [net EXCEPT ![i] = r]
    PROVE  Together'
<1>1. net \in [Slots -> Requests]
  BY DEF Safe, RequestsOK
<1>2. Busy' = Busy /\ \A j \in Busy : net'[j] = net[j]
  BY <1>1 DEF Busy
<1> QED
  BY <1>2 DEF Together, Halfway, InCM, InSecret, Alike

LEMMA NextTogether == ASSUME Safe, Together, [Next]_vars PROVE Together'
<1>1. ASSUME NEW op \in {"create", "update", "reset", "delete"}, NEW u \in Users, NEW to \in States,
             Asks(Request(op, u, to, "start"))
      PROVE  Together'
  <2> DEFINE r == Request(op, u, to, "start")
  <2>1. r \in Requests /\ r.op = op /\ r.at = "start" /\ Asks(r)
    BY <1>1 DEF Request, Requests, Ops, Places
  <2> HIDE DEF r
  <2> QED
    BY <2>1, AsksTogether
<1>2. CASE Login
  <2> DEFINE r == Request("login", "nobody", "none", "cm")
  <2>1. r \in Requests /\ r.op = "login" /\ r.at = "cm" /\ Asks(r)
    BY <1>2 DEF Login, Request, Requests, Ops, Places, States
  <2> HIDE DEF r
  <2> QED
    BY <2>1, AsksTogether
<1>3. CASE Retry
  <2> DEFINE r == Request("list", "nobody", "none", "start")
  <2>1. r \in Requests /\ r.op = "list" /\ UNCHANGED srv /\ Sends(r)
    BY <1>3 DEF Retry, Request, Requests, Ops, Places, States
  <2>2. \E i \in Free : net' = [net EXCEPT ![i] = r]
    BY <2>1, SendsToFree DEF Safe, RequestsOK
  <2> QED
    BY <2>1, <2>2, ListsTogether DEF Free
<1>4. CASE \E u \in Users : \/ handleCreate(u) \/ handleToggleEnabled(u) \/ handleChangeRole(u)
                            \/ handleResetPassword(u) \/ handleDelete(u)
  <2>1. "on" \in States /\ "off" \in States /\ "none" \in States
    BY DEF States
  <2>2. \A u : (IF ui.users[u] = "on" THEN "off" ELSE "on") \in States
    BY <2>1
  <2> QED
    BY <1>1, <1>4, <2>1, <2>2 DEF handleCreate, handleToggleEnabled, handleChangeRole,
       handleResetPassword, handleDelete
<1>5. CASE Deliver
  <2>1. PICK i \in Slots : ShowUsers(i) \/ ShowError(i)
    BY <1>5 DEF Deliver, Answers
  <2>2. Idle \in Requests /\ Idle.op = "none"
    BY IdleOK DEF Idle, Request
  <2> QED
    BY <2>1, <2>2, ListsTogether DEF ShowUsers, ShowError
<1>6. CASE UNCHANGED <<net, srv>>
  BY <1>6 DEF Together, Busy, Halfway, InCM, InSecret, Alike
<1> QED
  BY <1>2, <1>3, <1>4, <1>5, <1>6, ServeTogether, LoginTogether
  DEF Next, User, Serve, OpenAdd, CancelAdd, vars

LEMMA TogetherMeans == ASSUME Safe, Together PROVE CopiesAreStored
<1> SUFFICES ASSUME Busy = {}, ~srv.apart
             PROVE  srv.users = srv.cm /\ srv.pass = srv.secret
  BY DEF CopiesAreStored
<1>1. \A u \in Users : Alike(u)
  BY DEF Together
<1>2. /\ srv.users \in [Users -> States] /\ srv.cm \in [Users -> States]
      /\ srv.pass \in SUBSET Users /\ srv.secret \in SUBSET Users
  BY DEF Safe, StoreOK
<1>3. srv.users = srv.cm
  BY <1>1, <1>2 DEF Alike
<1>4. srv.pass = srv.secret
  BY <1>1, <1>2 DEF Alike
<1> QED
  BY <1>3, <1>4

(* The copies in memory, from which the users are listed and checked, are   *)
(* what is stored whenever nothing is under way, also after requests about  *)
(* different users that overlapped; not after a call that failed or an      *)
(* overlap on one user, until a login has loaded everything alone           *)
(* (store.go).                                                              *)
THEOREM CopiesStayStored == Spec => []CopiesAreStored
<1>1. Init => Safe /\ Together
  BY InitSafe, InitTogether
<1>2. Safe /\ Together /\ [Next]_vars => Safe' /\ Together'
  BY NextSafe, NextTogether
<1>3. Safe /\ Together => CopiesAreStored
  BY TogetherMeans
<1> QED
  BY <1>1, <1>2, <1>3, PTL DEF Spec
=============================================================================
