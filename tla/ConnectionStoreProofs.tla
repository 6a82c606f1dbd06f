----------------------- MODULE ConnectionStoreProofs -----------------------
(***************************************************************************)
(* Proofs about ConnectionStore, for any number of pods, requests,         *)
(* connections and tokens, and either backend.                             *)
(***************************************************************************)
EXTENDS ConnectionStore, TLAPS

Texts == Tokens \cup {Blank}
Good  == {d \in Document : Coherent(d)}

(***************************************************************************)
(* Every operation makes a good document of a good one.                    *)
(***************************************************************************)
LEMMA DocumentFields ==
    ASSUME NEW d \in Document
    PROVE  /\ DOMAIN d.conns \subseteq Names
           /\ d.conns \in [DOMAIN d.conns -> Connection]
           /\ d.active \in Names \cup {Nobody}
           /\ d = [conns |-> d.conns, active |-> d.active]
<1>1. PICK S \in SUBSET Names : d.conns \in [S -> Connection]
  BY DEF Document
<1>2. DOMAIN d.conns = S
  BY <1>1
<1> QED
  BY <1>1, <1>2 DEF Document

LEMMA MakesDocument ==
    ASSUME NEW S \in SUBSET Names, NEW f \in [S -> Connection], NEW a \in Names \cup {Nobody}
    PROVE  [conns |-> f, active |-> a] \in Document
BY DEF Document

LEMMA EmptyGood == Empty \in Good
<1>1. Empty.conns \in [{} -> Connection]
  BY DEF Empty
<1>2. Empty \in Document
  BY <1>1, MakesDocument DEF Empty
<1>3. DOMAIN Empty.conns = {} /\ Empty.active = Nobody
  BY DEF Empty
<1> QED
  BY <1>2, <1>3 DEF Good, Coherent, OneActive, OneDefault

LEMMA SavedGood ==
    ASSUME NEW d \in Good, NEW n \in Names, NEW c \in Connection
    PROVE  Saved(d, n, c) \in Good
<1> DEFINE e == Saved(d, n, c)
           D == DOMAIN d.conns
<1>0. d \in Document /\ Coherent(d)
  BY DEF Good
<1>1. /\ D \subseteq Names
      /\ d.conns \in [D -> Connection]
      /\ d.active \in Names \cup {Nobody}
  BY <1>0, DocumentFields
<1>2. CASE D \subseteq {n}
  <2>1. e = [conns |-> [m \in {n} |-> [c EXCEPT !.default = TRUE]], active |-> n]
    BY <1>2 DEF Saved
  <2>2. [c EXCEPT !.default = TRUE] \in Connection
    BY DEF Connection
  <2>3. [m \in {n} |-> [c EXCEPT !.default = TRUE]] \in [{n} -> Connection]
    BY <2>2
  <2>4. e \in Document
    BY <2>1, <2>3, MakesDocument
  <2>5. DOMAIN e.conns = {n} /\ e.active = n
    BY <2>1
  <2> QED
    BY <2>4, <2>5 DEF Good, Coherent, OneActive, OneDefault
<1>3. CASE ~(D \subseteq {n})
  <2>1. e = [conns |-> Entered(d, n, c), active |-> d.active]
    BY <1>3 DEF Saved
  <2>2. ASSUME NEW m \in D
        PROVE  /\ [d.conns[m] EXCEPT !.default = d.conns[m].default /\ ~c.default] \in Connection
               /\ [d.conns[m] EXCEPT !.default = d.conns[m].default /\ ~c.default].default
                     = (d.conns[m].default /\ ~c.default)
    <3>1. d.conns[m] \in Connection
      BY <1>1
    <3>2. d.conns[m].default \in BOOLEAN /\ c.default \in BOOLEAN
      BY <3>1 DEF Connection
    <3>3. (d.conns[m].default /\ ~c.default) \in BOOLEAN
      OBVIOUS
    <3> QED
      BY <3>1, <3>3 DEF Connection
  <2>3. /\ Entered(d, n, c) \in [D \cup {n} -> Connection]
        /\ Entered(d, n, c)[n] = c
        /\ \A m \in D : m # n => (Entered(d, n, c)[m].default <=> (d.conns[m].default /\ ~c.default))
    BY <2>2 DEF Entered
  <2>4. e \in Document
    <3>1. D \cup {n} \in SUBSET Names
      BY <1>1
    <3> QED
      BY <1>1, <2>1, <2>3, <3>1, MakesDocument
  <2>5. /\ e.conns = Entered(d, n, c)
        /\ DOMAIN e.conns = D \cup {n}
        /\ e.active = d.active
    BY <2>1, <2>3
  <2>6. OneActive(e)
    BY <1>0, <1>3, <2>5 DEF Coherent, OneActive
  <2>7. OneDefault(e)
    <3> SUFFICES ASSUME NEW i \in D \cup {n}, NEW j \in D \cup {n},
                        e.conns[i].default, e.conns[j].default, i # j
                 PROVE  FALSE
      BY <2>5 DEF OneDefault
    <3>1. CASE i = n
      BY <3>1, <2>3, <2>5
    <3>2. CASE j = n
      BY <3>2, <2>3, <2>5
    <3>3. CASE i # n /\ j # n
      <4>1. d.conns[i].default /\ d.conns[j].default
        BY <3>3, <2>3, <2>5
      <4> QED
        BY <1>0, <3>3, <4>1 DEF Coherent, OneDefault
    <3> QED
      BY <3>1, <3>2, <3>3
  <2> QED
    BY <2>4, <2>6, <2>7 DEF Good, Coherent
<1> QED
  BY <1>2, <1>3

LEMMA RemovedGood ==
    ASSUME NEW d \in Good, NEW n \in DOMAIN d.conns, NEW e \in Removed(d, n)
    PROVE  e \in Good
<1> DEFINE D == DOMAIN d.conns
<1>0. d \in Document /\ Coherent(d)
  BY DEF Good
<1>1. /\ D \subseteq Names
      /\ d.conns \in [D -> Connection]
      /\ d.active \in D
  BY <1>0, DocumentFields DEF Coherent, OneActive
<1>2. PICK a \in Successors(d, n) : e = [conns |-> Without(d, n), active |-> a]
  BY DEF Removed
<1>3. /\ Without(d, n) \in [D \ {n} -> Connection]
      /\ \A m \in D \ {n} : Without(d, n)[m] = d.conns[m]
  BY <1>1 DEF Without
<1>4. IF D = {n} THEN a = Nobody ELSE a \in D \ {n}
  BY <1>1 DEF Successors
<1>5. e \in Document
  <2>1. a \in Names \cup {Nobody}
    BY <1>1, <1>4
  <2>2. D \ {n} \in SUBSET Names
    BY <1>1
  <2> QED
    BY <1>2, <1>3, <2>1, <2>2, MakesDocument
<1>6. /\ e.conns = Without(d, n)
      /\ DOMAIN e.conns = D \ {n}
      /\ e.active = a
  BY <1>2, <1>3
<1>7. OneActive(e)
  BY <1>4, <1>6 DEF OneActive
<1>8. OneDefault(e)
  BY <1>0, <1>3, <1>6 DEF Coherent, OneDefault
<1> QED
  BY <1>5, <1>7, <1>8 DEF Good, Coherent

LEMMA ResultsGood ==
    ASSUME NEW o \in Operation, NEW t \in Texts, NEW d \in Good, NEW e \in Results(o, t, d)
    PROVE  e \in Good
<1>1. CASE o.kind \in {"create", "update"}
  <2>1. o.name \in Names /\ [default |-> o.default, token |-> t] \in Connection
    BY <1>1 DEF Operation, Connection, Texts
  <2>2. e = Saved(d, o.name, [default |-> o.default, token |-> t])
    BY <1>1 DEF Results
  <2> QED
    BY <2>1, <2>2, SavedGood
<1>2. CASE o.kind = "delete"
  <2>1. o.name \in DOMAIN d.conns /\ e \in Removed(d, o.name)
    BY <1>2 DEF Results
  <2> QED
    BY <2>1, RemovedGood
<1>3. CASE o.kind = "activate"
  <2>1. o.name \in DOMAIN d.conns /\ e = [d EXCEPT !.active = o.name]
    BY <1>3 DEF Results
  <2>2. d \in Document /\ Coherent(d)
    BY DEF Good
  <2>3. /\ DOMAIN d.conns \subseteq Names
        /\ d.conns \in [DOMAIN d.conns -> Connection]
        /\ d = [conns |-> d.conns, active |-> d.active]
    BY <2>2, DocumentFields
  <2>4. e = [conns |-> d.conns, active |-> o.name]
    BY <2>1, <2>3
  <2>5. e \in Document
    BY <2>1, <2>3, <2>4, MakesDocument
  <2>6. e.conns = d.conns /\ e.active = o.name
    BY <2>4
  <2> QED
    BY <2>1, <2>2, <2>5, <2>6 DEF Good, Coherent, OneActive, OneDefault
<1> QED
  BY <1>1, <1>2, <1>3 DEF Operation

\* A file that is read is as good as it was written.
LEMMA LoadedGood ==
    ASSUME NEW d \in Good
    PROVE  Loaded(d) \in Good /\ DOMAIN Loaded(d).conns = DOMAIN d.conns
<1>1. CASE backend # "file"
  BY <1>1 DEF Loaded
<1>2. CASE backend = "file"
  <2> DEFINE D == DOMAIN d.conns
             C == [n \in D |-> [d.conns[n] EXCEPT !.token = Expanded[@]]]
  <2>1. d \in Document /\ Coherent(d) /\ D \subseteq Names /\ d.conns \in [D -> Connection]
        /\ d.active \in Names \cup {Nobody}
    BY DocumentFields DEF Good
  <2>2. \A n \in D : C[n] \in Connection /\ C[n].default = d.conns[n].default
    BY <2>1, ConnectionAssumption DEF Connection
  <2>3. DOMAIN C = D /\ C \in [D -> Connection]
    BY <2>2
  <2>4. Loaded(d) = [conns |-> C, active |-> d.active]
    BY <1>2 DEF Loaded
  <2> HIDE DEF C
  <2>5. Loaded(d) \in Document
    BY <2>1, <2>3, <2>4, MakesDocument
  <2>6. Loaded(d).conns = C /\ Loaded(d).active = d.active
    BY <2>4
  <2>7. Coherent(Loaded(d))
    BY <2>1, <2>2, <2>3, <2>6 DEF Coherent, OneActive, OneDefault
  <2> QED
    BY <2>3, <2>5, <2>6, <2>7 DEF Good
<1> QED
  BY <1>1, <1>2

(***************************************************************************)
(* The invariant.  A document that is about to be saved is good, and while *)
(* its version is the current one it is what its operation makes of the    *)
(* document that is stored.                                                *)
(***************************************************************************)
Locking == {"save", "create", "again"}

Current(r) == seen[r] = version => copy[r] \in Results(op[r], token[r], doc)

AtPlace(r) ==
    /\ copy[r] \in Good
    /\ pc[r] # "idle" => op[r] \in Operation /\ at[r] \in Pods
    /\ pc[r] \in Locking => backend = "secret" /\ seen[r] <= version /\ Current(r)
    /\ pc[r] \in Locking /\ existed => seen[r] > 0
    /\ pc[r] = "write" => backend = "file"

IInv ==
    /\ ConnTypeOK
    /\ doc \in Good
    /\ backend = "secret" /\ existed => version > 0
    /\ \A r \in Requests : AtPlace(r)

LEMMA InitInv == Init => IInv
<1> SUFFICES ASSUME Init PROVE IInv
  OBVIOUS
<1>1. Empty \in Document
  BY EmptyGood DEF Good
<1>2. doc \in Good
  BY DEF Init, Good
<1>3. ConnTypeOK
  <2>1. version \in Nat /\ requests \in 0..MaxRequests
    BY ConnectionAssumption DEF Init
  <2>2. doc \in Document /\ copy \in [Requests -> Document]
    BY <1>1, <1>2 DEF Init, Good
  <2> QED
    BY <2>1, <2>2 DEF Init, ConnTypeOK, Places
<1>4. ASSUME NEW r \in Requests PROVE AtPlace(r)
  BY EmptyGood DEF Init, AtPlace, Locking
<1>5. backend = "secret" /\ existed => version > 0
  BY DEF Init
<1> QED
  BY <1>2, <1>3, <1>4, <1>5 DEF IInv

\* What a step of r leaves of the others' fields.
Aside(r) ==
    \A q \in Requests \ {r} :
        /\ pc'[q] = pc[q] /\ at'[q] = at[q] /\ op'[q] = op[q]
        /\ token'[q] = token[q] /\ copy'[q] = copy[q] /\ seen'[q] = seen[q]

\* The store is left alone, or saved to: a Secret with a new version.
Stored ==
    \/ UNCHANGED stored
    \/ doc' \in Good /\ version' = version + 1
    \/ doc' \in Good /\ version' = version /\ backend = "file"

LEMMA OthersKeep ==
    ASSUME IInv, NEW r \in Requests, Aside(r), Stored, UNCHANGED site,
           NEW q \in Requests, q # r
    PROVE  AtPlace(q)'
<1>1. /\ pc'[q] = pc[q] /\ at'[q] = at[q] /\ op'[q] = op[q]
      /\ token'[q] = token[q] /\ copy'[q] = copy[q] /\ seen'[q] = seen[q]
  BY DEF Aside
<1>2. backend' = backend /\ existed' = existed
  BY DEF site
<1>3. AtPlace(q) /\ version \in Nat /\ seen[q] \in Nat
  BY DEF IInv, ConnTypeOK
<1>4. ASSUME pc[q] \in Locking
      PROVE  seen[q] <= version' /\ (seen[q] = version' => copy[q] \in Results(op[q], token[q], doc'))
  <2>1. backend = "secret" /\ seen[q] <= version /\ Current(q)
    BY <1>3, <1>4 DEF AtPlace
  <2>2. CASE UNCHANGED stored
    BY <2>1, <2>2 DEF stored, Current
  <2>3. CASE version' = version + 1
    BY <1>3, <2>1, <2>3
  <2>4. CASE backend = "file"
    BY <2>1, <2>4
  <2> QED
    BY <2>2, <2>3, <2>4 DEF Stored
<1>5. pc[q] \in Locking => Current(q)'
  BY <1>1, <1>4 DEF Current
<1> QED
  BY <1>1, <1>2, <1>3, <1>4, <1>5 DEF AtPlace

LEMMA Sites == ASSUME IInv, Stored, UNCHANGED site
               PROVE  doc' \in Good /\ version' \in Nat
                      /\ (backend' = "secret" /\ existed' => version' > 0)
BY DEF IInv, ConnTypeOK, Stored, site, stored

LEMMA FinishKeeps ==
    ASSUME IInv, NEW r \in Requests, Finish(r), Stored
    PROVE  IInv'
<1>1. Aside(r) /\ UNCHANGED site
  BY DEF Finish, Aside, IInv, ConnTypeOK
<1>2. doc' \in Good /\ version' \in Nat /\ (backend' = "secret" /\ existed' => version' > 0)
  BY <1>1, Sites
<1>3. pc'[r] = "idle" /\ copy'[r] = Empty
  BY DEF Finish, IInv, ConnTypeOK
<1>4. AtPlace(r)'
  BY <1>3, EmptyGood DEF AtPlace, Locking
<1>5. ConnTypeOK'
  <2>1. /\ lock' \in [Pods -> Requests \cup {Nobody}]
        /\ \A p \in Pods : lock'[p] # Nobody => lock'[p] = lock[p] /\ lock[p] # r
    BY DEF Finish, IInv, ConnTypeOK
  <2>2. \A p \in Pods : lock'[p] # Nobody => at'[lock'[p]] = p /\ pc'[lock'[p]] \in Locking
    BY <1>1, <2>1 DEF Aside, IInv, ConnTypeOK, Locking
  <2>3. /\ pc' \in [Requests -> Places]
        /\ at' \in [Requests -> Pods \cup {Nobody}]
        /\ op' \in [Requests -> Operation \cup {NoOp}]
        /\ token' \in [Requests -> Tokens \cup {Blank}]
        /\ copy' \in [Requests -> Document]
        /\ seen' \in [Requests -> Nat]
        /\ requests' \in 0..MaxRequests
    BY EmptyGood DEF Finish, IInv, ConnTypeOK, Places, Good
  <2>4. backend' \in Backends /\ existed' \in BOOLEAN
    BY <1>1 DEF site, IInv, ConnTypeOK
  <2> QED
    BY <1>2, <2>1, <2>2, <2>3, <2>4 DEF ConnTypeOK, Good, Locking
<1>6. ASSUME NEW q \in Requests PROVE AtPlace(q)'
  BY <1>1, <1>4, OthersKeep
<1> QED
  BY <1>2, <1>5, <1>6 DEF IInv

LEMMA GiveUpKeeps == ASSUME IInv, NEW r \in Requests, GiveUp(r) PROVE IInv'
BY FinishKeeps DEF GiveUp, Stored

LEMMA StoreKeeps == ASSUME IInv, NEW r \in Requests, Store(r) PROVE IInv'
<1>1. copy[r] \in Good
  BY DEF IInv, AtPlace
<1> QED
  BY <1>1, FinishKeeps DEF Store, Stored

\* A step of r that leaves the store alone and takes no lock keeps the
\* invariant if it leaves r well placed.
LEMMA MoveKeeps ==
    ASSUME IInv, NEW r \in Requests, Aside(r), UNCHANGED <<site, stored, lock, copy, seen>>,
           pc[r] \in Locking => pc'[r] \in Locking /\ at'[r] = at[r],
           AtPlace(r)',
           /\ pc' \in [Requests -> Places]
           /\ at' \in [Requests -> Pods \cup {Nobody}]
           /\ op' \in [Requests -> Operation \cup {NoOp}]
           /\ token' \in [Requests -> Tokens \cup {Blank}]
           /\ requests' \in 0..MaxRequests
    PROVE  IInv'
<1>1. /\ UNCHANGED <<backend, existed, doc, version, lock, copy, seen>>
      /\ Stored
  BY DEF site, stored, Stored
<1>2. ASSUME NEW q \in Requests PROVE AtPlace(q)'
  BY <1>1, OthersKeep
<1>3. \A p \in Pods : lock'[p] # Nobody => at'[lock'[p]] = p /\ pc'[lock'[p]] \in Locking
  <2> SUFFICES ASSUME NEW p \in Pods, lock[p] # Nobody
               PROVE  at'[lock[p]] = p /\ pc'[lock[p]] \in Locking
    BY <1>1
  <2>1. lock[p] \in Requests /\ at[lock[p]] = p /\ pc[lock[p]] \in Locking
    BY DEF IInv, ConnTypeOK, Locking
  <2> QED
    BY <2>1 DEF Aside
<1>4. ConnTypeOK'
  BY <1>1, <1>3 DEF IInv, ConnTypeOK, Locking
<1> QED
  BY <1>1, <1>2, <1>4 DEF IInv

LEMMA BeginKeeps == ASSUME IInv, NEW r \in Requests, Begin(r) PROVE IInv'
<1>1. PICK o \in Operation, p \in Pods :
          /\ op' = [op EXCEPT ![r] = o]
          /\ at' = [at EXCEPT ![r] = p]
          /\ token' = [token EXCEPT ![r] = IF o.kind \in {"create", "update"} THEN o.token ELSE Blank]
          /\ pc' = [pc EXCEPT ![r] = IF o.kind = "update" THEN "read" ELSE "load"]
  BY DEF Begin
<1>2. /\ pc[r] = "idle" /\ requests < MaxRequests /\ requests' = requests + 1
      /\ UNCHANGED <<site, stored, lock, copy, seen>>
  BY DEF Begin
<1>3. (IF o.kind \in {"create", "update"} THEN o.token ELSE Blank) \in Tokens \cup {Blank}
  BY DEF Operation
<1>4. /\ pc' \in [Requests -> Places]
      /\ at' \in [Requests -> Pods \cup {Nobody}]
      /\ op' \in [Requests -> Operation \cup {NoOp}]
      /\ token' \in [Requests -> Tokens \cup {Blank}]
  BY <1>1, <1>3 DEF IInv, ConnTypeOK, Places
<1>5. requests' \in 0..MaxRequests
  BY <1>2, ConnectionAssumption DEF IInv, ConnTypeOK
<1>6. pc'[r] \in {"read", "load"} /\ op'[r] = o /\ at'[r] = p /\ Aside(r)
  BY <1>1, <1>2 DEF IInv, ConnTypeOK, Aside
<1>7. AtPlace(r)'
  BY <1>2, <1>6 DEF IInv, AtPlace, Locking
<1>8. pc[r] \notin Locking
  BY <1>2 DEF Locking
<1> QED
  BY <1>2, <1>4, <1>5, <1>6, <1>7, <1>8, MoveKeeps

LEMMA ReadSavedKeeps == ASSUME IInv, NEW r \in Requests, ReadSaved(r) PROVE IInv'
<1>1. /\ pc[r] = "read" /\ pc' = [pc EXCEPT ![r] = "load"]
      /\ UNCHANGED <<site, stored, lock, at, op, copy, seen, requests>>
  BY DEF ReadSaved
<1>2. token' \in [Requests -> Tokens \cup {Blank}] /\ \A q \in Requests \ {r} : token'[q] = token[q]
  <2>1. CASE UNCHANGED token
    BY <2>1 DEF IInv, ConnTypeOK
  <2>2. CASE /\ op[r].name \in DOMAIN doc.conns
             /\ token' = [token EXCEPT ![r] = Loaded(doc).conns[op[r].name].token]
    <3>1. Loaded(doc) \in Document /\ DOMAIN Loaded(doc).conns = DOMAIN doc.conns
      BY LoadedGood DEF IInv, Good
    <3>2. Loaded(doc).conns[op[r].name] \in Connection
      BY <2>2, <3>1, DocumentFields
    <3>3. Loaded(doc).conns[op[r].name].token \in Tokens \cup {Blank}
      BY <3>2 DEF Connection
    <3> QED
      BY <2>2, <3>3 DEF IInv, ConnTypeOK
  <2> QED
    BY <2>1, <2>2 DEF ReadSaved
<1>3. /\ pc' \in [Requests -> Places] /\ pc'[r] = "load"
      /\ at' \in [Requests -> Pods \cup {Nobody}]
      /\ op' \in [Requests -> Operation \cup {NoOp}]
      /\ requests' \in 0..MaxRequests
  BY <1>1 DEF IInv, ConnTypeOK, Places
<1>4. Aside(r)
  BY <1>1, <1>2 DEF Aside, IInv, ConnTypeOK
<1>5. AtPlace(r)'
  BY <1>1, <1>3 DEF IInv, AtPlace, Locking
<1>6. pc[r] \notin Locking
  BY <1>1 DEF Locking
<1> QED
  BY <1>1, <1>2, <1>3, <1>4, <1>5, <1>6, MoveKeeps

LEMMA GoToCreateKeeps ==
    ASSUME IInv, NEW r \in Requests, pc[r] \in Locking, NEW place \in Locking, GoTo(r, place)
    PROVE  IInv'
<1>1. /\ pc' = [pc EXCEPT ![r] = place]
      /\ UNCHANGED <<site, stored, lock, at, op, token, copy, seen, requests>>
  BY DEF GoTo
<1>2. /\ pc' \in [Requests -> Places] /\ pc'[r] = place
      /\ at' \in [Requests -> Pods \cup {Nobody}]
      /\ op' \in [Requests -> Operation \cup {NoOp}]
      /\ token' \in [Requests -> Tokens \cup {Blank}]
      /\ requests' \in 0..MaxRequests
  BY <1>1 DEF IInv, ConnTypeOK, Places, Locking
<1>3. Aside(r)
  BY <1>1 DEF Aside, IInv, ConnTypeOK
<1>4. AtPlace(r)'
  BY <1>1, <1>2 DEF IInv, AtPlace, Current, Locking, site, stored
<1> QED
  BY <1>1, <1>2, <1>3, <1>4, MoveKeeps

LEMMA LoadKeeps == ASSUME IInv, NEW r \in Requests, Load(r) PROVE IInv'
<1>1. PICK d \in Results(op[r], token[r], Loaded(doc)) : copy' = [copy EXCEPT ![r] = d]
  BY DEF Load
<1>2. /\ pc[r] = "load" /\ lock[at[r]] = Nobody
      /\ seen' = [seen EXCEPT ![r] = version]
      /\ UNCHANGED <<site, stored, at, op, token, requests>>
  BY DEF Load, Unlocked
<1>3. op[r] \in Operation /\ at[r] \in Pods /\ token[r] \in Texts /\ doc \in Good
  BY <1>2 DEF IInv, AtPlace, ConnTypeOK, Texts
<1>4. d \in Good
  <2>1. Loaded(doc) \in Good
    BY <1>3, LoadedGood
  <2> QED
    BY <1>3, <2>1, ResultsGood
<1>5. /\ copy' \in [Requests -> Document] /\ copy'[r] = d
      /\ seen' \in [Requests -> Nat] /\ seen'[r] = version
  BY <1>1, <1>2, <1>4 DEF IInv, ConnTypeOK, Good
<1>6. \/ /\ backend = "secret"
         /\ lock' = [lock EXCEPT ![at[r]] = r] /\ pc' = [pc EXCEPT ![r] = "save"]
      \/ /\ backend = "file"
         /\ lock' = lock /\ pc' = [pc EXCEPT ![r] = "write"]
  BY ConnectionAssumption DEF Load, IInv, ConnTypeOK
<1>7. /\ pc' \in [Requests -> Places] /\ Aside(r)
      /\ lock' \in [Pods -> Requests \cup {Nobody}]
  BY <1>1, <1>2, <1>6 DEF Aside, IInv, ConnTypeOK, Places
<1>8. \A p \in Pods : lock'[p] # Nobody => at'[lock'[p]] = p /\ pc'[lock'[p]] \in Locking
  <2> SUFFICES ASSUME NEW p \in Pods, lock'[p] # Nobody
               PROVE  at[lock'[p]] = p /\ pc'[lock'[p]] \in Locking
    BY <1>2
  <2>1. CASE lock'[p] = lock[p]
    <3>1. lock[p] \in Requests /\ at[lock[p]] = p /\ pc[lock[p]] \in Locking
      BY <2>1 DEF IInv, ConnTypeOK, Locking
    <3>2. lock[p] # r
      BY <1>2, <3>1 DEF Locking
    <3> QED
      BY <1>7, <2>1, <3>1, <3>2 DEF Aside
  <2>2. CASE lock'[p] # lock[p]
    <3>1. p = at[r] /\ lock'[p] = r /\ pc'[r] = "save"
      BY <1>3, <1>6, <2>2 DEF IInv, ConnTypeOK
    <3> QED
      BY <3>1 DEF Locking
  <2> QED
    BY <2>1, <2>2
<1>9. Stored /\ UNCHANGED <<backend, existed, doc, version, at, op, token, requests>>
  BY <1>2 DEF Stored, site, stored
<1>10. AtPlace(r)'
  <2>1. copy'[r] \in Good /\ op'[r] \in Operation /\ at'[r] \in Pods
    BY <1>3, <1>4, <1>5, <1>9
  <2>2. pc'[r] \in Locking => Current(r)'
    <3> SUFFICES ASSUME pc'[r] \in Locking PROVE Current(r)'
      OBVIOUS
    <3>1. backend = "secret"
      BY <1>6 DEF IInv, ConnTypeOK, Locking
    <3>2. d \in Results(op[r], token[r], doc)
      BY <1>1, <3>1 DEF Loaded
    <3> QED
      BY <1>5, <1>9, <3>2 DEF Current
  <2>3. backend = "secret" /\ existed => version > 0
    BY DEF IInv
  <2>4. version \in Nat
    BY DEF IInv, ConnTypeOK
  <2>5. \/ backend = "secret" /\ pc'[r] = "save"
        \/ backend = "file" /\ pc'[r] = "write"
    BY <1>6 DEF IInv, ConnTypeOK
  <2> QED
    BY <1>5, <1>9, <2>1, <2>2, <2>3, <2>4, <2>5 DEF AtPlace, Locking
<1>11. ASSUME NEW q \in Requests PROVE AtPlace(q)'
  BY <1>2, <1>7, <1>9, <1>10, OthersKeep
<1>12. ConnTypeOK'
  BY <1>5, <1>7, <1>8, <1>9 DEF IInv, ConnTypeOK, Locking
<1> QED
  BY <1>9, <1>11, <1>12 DEF IInv

LEMMA WriteKeeps == ASSUME IInv, NEW r \in Requests, Write(r) PROVE IInv'
<1>1. CASE doc' = copy[r] /\ UNCHANGED version /\ Finish(r)
  <2>1. copy[r] \in Good /\ backend = "file"
    BY DEF Write, IInv, AtPlace
  <2> QED
    BY <1>1, <2>1, FinishKeeps DEF Stored
<1>2. CASE Fails(r)
  BY <1>2, GiveUpKeeps DEF Fails
<1> QED
  BY <1>1, <1>2 DEF Write

LEMMA SaveKeeps ==
    ASSUME IInv, NEW r \in Requests, Update(r) \/ Create(r) \/ UpdateAgain(r)
    PROVE  IInv'
<1>1. CASE Store(r)
  BY <1>1, StoreKeeps
<1>2. CASE GiveUp(r) \/ Fails(r)
  BY <1>2, GiveUpKeeps DEF Fails
<1>3. CASE pc[r] \in Locking /\ (GoTo(r, "create") \/ GoTo(r, "again"))
  <2>1. "create" \in Locking /\ "again" \in Locking
    BY DEF Locking
  <2> QED
    BY <1>3, <2>1, GoToCreateKeeps
<1> QED
  BY <1>1, <1>2, <1>3 DEF Update, Create, UpdateAgain, Locking

LEMMA NextInv == IInv /\ [Next]_vars => IInv'
<1> SUFFICES ASSUME IInv, [Next]_vars PROVE IInv'
  OBVIOUS
<1>1. CASE UNCHANGED vars
  <2>1. UNCHANGED <<backend, existed, doc, version, lock, pc, at, op, token, copy, seen, requests>>
    BY <1>1 DEF vars
  <2> QED
    BY <2>1 DEF IInv, ConnTypeOK, AtPlace, Current
<1>2. ASSUME NEW r \in Requests, Begin(r) PROVE IInv'
  BY <1>2, BeginKeeps
<1>3. ASSUME NEW r \in Requests, Proceed(r) PROVE IInv'
  BY <1>3, ReadSavedKeeps, LoadKeeps, GiveUpKeeps, SaveKeeps, WriteKeeps
  DEF Proceed, Refused, LoadFails, Fails
<1> QED
  BY <1>1, <1>2, <1>3 DEF Next

LEMMA Invariance == Spec => []IInv
BY InitInv, NextInv, PTL DEF Spec

\* The variables keep their types, and a lock is held only by a request that
\* is saving in its pod.
THEOREM ConnTypeCorrect == Spec => []ConnTypeOK
<1>1. IInv => ConnTypeOK
  BY DEF IInv
<1> QED
  BY <1>1, Invariance, PTL

\* Whatever saves overtake each other, in a Secret or in a file, the active
\* connection exists and at most one is the default.
THEOREM DocumentsStayCoherent == Spec => []DocumentCoherent
<1>1. IInv => DocumentCoherent
  BY DEF IInv, Good, DocumentCoherent
<1> QED
  BY <1>1, Invariance, PTL

\* Once the Secret exists, a save that is accepted comes from the document
\* it replaces: the resource version prevents lost changes.
THEOREM VersionsPreventLoss == Spec => NoLostChange
<1>1. ASSUME IInv, Next, backend = "secret", existed PROVE AppliesToLatest
  <2> SUFFICES ASSUME doc' # doc PROVE AppliesToLatest
    BY DEF AppliesToLatest
  <2>1. PICK r \in Requests : Begin(r) \/ Proceed(r)
    BY <1>1 DEF Next
  <2>2. ~Write(r)
    BY <1>1 DEF Write, IInv, AtPlace
  <2>3. pc[r] \in Locking /\ Store(r)
    BY <2>1, <2>2 DEF Begin, Proceed, ReadSaved, Load, Refused, LoadFails, Update, Create,
       UpdateAgain, Fails, GiveUp, GoTo, stored, Locking
  <2>4. AtPlace(r) /\ version > 0 /\ seen[r] > 0 /\ version \in Nat /\ seen[r] \in Nat
    BY <1>1, <2>3 DEF IInv, AtPlace, ConnTypeOK
  <2>5. seen[r] = version
    BY <2>1, <2>2, <2>3, <2>4 DEF Begin, Proceed, ReadSaved, Load, Refused, LoadFails, Update,
       Create, UpdateAgain, Accepted, Fails, GiveUp, GoTo, stored, Locking
  <2>6. doc' \in Results(op[r], token[r], doc)
    BY <2>3, <2>4, <2>5 DEF AtPlace, Current, Store
  <2>7. pc'[r] = "idle"
    BY <1>1, <2>3 DEF Store, Finish, IInv, ConnTypeOK
  <2> QED
    BY <2>3, <2>6, <2>7 DEF AppliesToLatest, Locking, Saving
<1>2. IInv /\ [Next]_vars => [backend = "secret" /\ existed => AppliesToLatest]_vars
  BY <1>1
<1> QED
  BY <1>2, Invariance, PTL DEF Spec, NoLostChange
=============================================================================
