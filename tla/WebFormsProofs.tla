--------------------------- MODULE WebFormsProofs ---------------------------
(***************************************************************************)
(* Proofs about the composed pages that save, start or follow something:   *)
(* the two parts of the settings page, the embedded dashboards, the dialog *)
(* that starts migrations, the page of a migration, and the metrics of the *)
(* observability page.  The requests and the composition are as in         *)
(* WebPagesProofs.                                                         *)
(***************************************************************************)
EXTENDS WebPagesProofs

----------------------------------------------------------------------------
(* The connections of the settings page: two forms, each tested and saved.  *)

LEMMA ConnsCalls ==
    /\ Conns!NoCalls = NoCalls
    /\ \A b, kind, arg : Conns!Send(b, kind, arg) = Send(b, kind, arg)
    /\ \A b, c : Conns!Settled(b, c) = Settled(b, c)
    /\ \A b, kind : Conns!InFlight(b, kind) = InFlight(b, kind)
BY DEF Conns!NoCalls, NoCalls, Conns!EmptyBag, EmptyBag, Conns!SetToBag, SetToBag, Conns!Send, Send,
   Conns!Call, Call, Conns!Settled, Settled, Conns!InFlight, InFlight, Conns!BagToSet, BagToSet,
   Conns!(+), (+), Conns!(-), (-)

SaveKinds == {"save-test", "save"}

FormNames == {"add", "edit"}

\* The saves of one form that are under way: none, or one while it is saving.
SavesOf(b, k) == {c \in BagToSet(b) : c.kind \in SaveKinds /\ c.arg[1] = k}

OneSave(b, k, saving) ==
    IF saving THEN \E c : SavesOf(b, k) = {c} /\ b[c] = 1 ELSE SavesOf(b, k) = {}

LEMMA SaveSent ==
    ASSUME NEW b, NEW k, NEW kind \in SaveKinds, NEW arg, arg[1] = k, OneSave(b, k, FALSE)
    PROVE  OneSave(Send(b, kind, arg), k, TRUE)
<1> DEFINE d == Call(kind, arg)
<1>1. d.kind \in SaveKinds /\ d.arg[1] = k /\ d \notin DOMAIN b
  BY DEF OneSave, SavesOf, Call, BagToSet
<1>2. SavesOf(Send(b, kind, arg), k) = {d}
  BY <1>1, SentCalls DEF OneSave, SavesOf
<1>3. Send(b, kind, arg)[d] = 1
  BY <1>1 DEF Send, SetToBag, (+)
<1> QED
  BY <1>2, <1>3 DEF OneSave

LEMMA OtherSent ==
    ASSUME NEW b, NEW k, NEW kind, NEW arg, kind \in SaveKinds => arg[1] # k,
           NEW saving \in BOOLEAN, OneSave(b, k, saving)
    PROVE  OneSave(Send(b, kind, arg), k, saving)
<1> DEFINE d == Call(kind, arg)
<1>1. ~(d.kind \in SaveKinds /\ d.arg[1] = k)
  BY DEF Call
<1>2. SavesOf(Send(b, kind, arg), k) = SavesOf(b, k)
  BY <1>1, SentCalls DEF SavesOf
<1>3. ASSUME NEW c \in SavesOf(b, k), b[c] = 1 PROVE Send(b, kind, arg)[c] = 1
  <2>1. c # d /\ c \in DOMAIN b
    BY <1>1 DEF SavesOf, BagToSet
  <2> QED
    BY <2>1, <1>3 DEF Send, SetToBag, (+)
<1> QED
  BY <1>2, <1>3 DEF OneSave

LEMMA SaveSettles ==
    ASSUME NEW b, NEW k, NEW saving \in BOOLEAN, OneSave(b, k, saving), NEW c \in SavesOf(b, k)
    PROVE  saving /\ OneSave(Settled(b, c), k, FALSE)
<1>1. saving /\ SavesOf(b, k) = {c} /\ b[c] = 1
  BY DEF OneSave
<1>2. c \notin DOMAIN Settled(b, c)
  BY <1>1 DEF Settled, SetToBag, (-)
<1> QED
  BY <1>1, <1>2, SettledCalls DEF OneSave, SavesOf, BagToSet

LEMMA OtherSettles ==
    ASSUME NEW b, NEW k, NEW saving \in BOOLEAN, OneSave(b, k, saving),
           NEW c \in BagToSet(b), c \notin SavesOf(b, k)
    PROVE  OneSave(Settled(b, c), k, saving)
<1>1. SavesOf(Settled(b, c), k) \subseteq SavesOf(b, k)
  BY SettledCalls DEF SavesOf
<1>2. ASSUME NEW d, SavesOf(b, k) = {d}, b[d] = 1
      PROVE  d \in SavesOf(Settled(b, c), k) /\ Settled(b, c)[d] = 1
  <2>1. d # c /\ d \in DOMAIN b /\ d.kind \in SaveKinds /\ d.arg[1] = k
    BY <1>2 DEF SavesOf, BagToSet
  <2> QED
    BY <2>1, <1>2 DEF Settled, SetToBag, (-), SavesOf, BagToSet
<1> QED
  BY <1>1, <1>2 DEF OneSave

\* A form; the one that edits holds the fields of the connection it is open for.
Form(f) == /\ Has(f, {"name", "fields", "status", "saving"})
           /\ Has(f.fields, {"of", "x"})
           /\ f.saving \in BOOLEAN

FormsOK(u) ==
    /\ Has(u, {"loading", "error", "showAdd", "add", "edit"})
    /\ Form(u.add) /\ Form(u.edit)
    /\ u.add.name = Absent /\ u.add.fields.of = Absent
    /\ u.edit.name # Absent => u.edit.fields.of = u.edit.name

\* A call keeps the fields of one connection, and a save what was accepted.
CallOK(c, s) ==
    /\ c.kind \in SaveKinds => c.arg[1] \in FormNames /\ c.arg[3].of = c.arg[2]
    /\ c.kind = "save" => c.arg[3].x \in s
    /\ c.kind = "test" => c.arg[1] \in FormNames

ConnsInv ==
    /\ FormsOK(ui)
    /\ \A k \in FormNames : OneSave(net, k, ui[k].saving)
    /\ \A c \in BagToSet(net) : CallOK(c, srv)

LEMMA InitConns == Conns!Init => ConnsInv
<1> SUFFICES ASSUME Conns!Init PROVE ConnsInv
  OBVIOUS
<1>1. FormsOK(ui) /\ ~ui.add.saving /\ ~ui.edit.saving
  BY DEF Conns!Init, Conns!Closed, Conns!Fields, FormsOK, Form, Has
<1>2. BagToSet(net) = {Call("list", <<>>)}
  BY ConnsCalls, SentCalls, NoCallsYet DEF Conns!Init
<1>3. \A c \in BagToSet(net) : c.kind = "list"
  BY <1>2 DEF Call
<1> QED
  BY <1>1, <1>3 DEF ConnsInv, OneSave, SavesOf, SaveKinds, CallOK, FormNames

\* A step that neither begins nor ends a save.
LEMMA ConnsStay ==
    ASSUME ConnsInv, FormsOK(ui'), UNCHANGED srv,
           ui'.add.saving = ui.add.saving, ui'.edit.saving = ui.edit.saving,
           \/ net' = net
           \/ net' = Send(net, "list", <<>>)
           \/ \E k \in FormNames : \E which, x : net' = Send(net, "test", <<k, which, x>>)
           \/ \E c \in BagToSet(net) : c.kind \notin SaveKinds /\ net' = Settled(net, c)
    PROVE  ConnsInv'
<1>0. \A k \in FormNames : ui'[k].saving = ui[k].saving /\ ui[k].saving \in BOOLEAN
  BY DEF FormNames, ConnsInv, FormsOK, Form
<1>1. CASE net' = net
  BY <1>0, <1>1 DEF ConnsInv
<1>2. ASSUME NEW kind, NEW arg, kind \notin SaveKinds, net' = Send(net, kind, arg),
             kind = "test" => arg[1] \in FormNames
      PROVE  ConnsInv'
  <2>1. \A k \in FormNames : OneSave(net', k, ui'[k].saving)
    BY <1>0, <1>2, OtherSent DEF ConnsInv
  <2>2. CallOK(Call(kind, arg), srv)
    BY <1>2 DEF CallOK, Call, SaveKinds
  <2>3. \A c \in BagToSet(net') : c \in BagToSet(net) \/ c = Call(kind, arg)
    BY <1>2, SentCalls
  <2>4. \A c \in BagToSet(net') : CallOK(c, srv)
    BY <2>2, <2>3 DEF ConnsInv, CallOK
  <2> QED
    BY <2>1, <2>4 DEF ConnsInv
<1>3. ASSUME NEW c \in BagToSet(net), c.kind \notin SaveKinds, net' = Settled(net, c)
      PROVE  ConnsInv'
  <2>1. \A k \in FormNames : OneSave(net', k, ui'[k].saving)
    BY <1>0, <1>3, OtherSettles DEF ConnsInv, SavesOf
  <2>2. BagToSet(net') \subseteq BagToSet(net)
    BY <1>3, SettledCalls
  <2> QED
    BY <2>1, <2>2 DEF ConnsInv, CallOK
<1>4. CASE net' = Send(net, "list", <<>>)
  <2>1. "list" \notin SaveKinds
    BY DEF SaveKinds
  <2> QED
    BY <1>2, <1>4, <2>1
<1>5. ASSUME NEW k \in FormNames, NEW which, NEW x, net' = Send(net, "test", <<k, which, x>>)
      PROVE  ConnsInv'
  <2> DEFINE arg == <<k, which, x>>
  <2>1. "test" \notin SaveKinds /\ arg[1] \in FormNames
    BY DEF SaveKinds
  <2> HIDE DEF arg
  <2> QED
    BY <1>2, <1>5, <2>1 DEF arg
<1> QED
  BY <1>1, <1>3, <1>4, <1>5

\* One form changes, but not whose it is.
LEMMA FormSet ==
    ASSUME FormsOK(ui), NEW k \in FormNames, NEW f, Form(f), ui' = [ui EXCEPT ![k] = f],
           f.name = ui[k].name, f.fields.of = ui[k].fields.of
    PROVE  /\ FormsOK(ui') /\ ui'[k].saving = f.saving
           /\ \A j \in FormNames : j # k => ui'[j].saving = ui[j].saving
<1>1. CASE k = "add"
  BY <1>1 DEF FormsOK, Form, Has, FormNames
<1>2. CASE k = "edit"
  BY <1>2 DEF FormsOK, Form, Has, FormNames
<1> QED
  BY <1>1, <1>2 DEF FormNames

LEMMA FormIs == ASSUME ConnsInv, NEW k \in FormNames PROVE FormsOK(ui) /\ Form(ui[k])
BY DEF ConnsInv, FormsOK, FormNames

\* A save begins.
LEMMA SubmitKeeps == ASSUME ConnsInv, NEW k \in FormNames, Conns!Submit(k) PROVE ConnsInv'
<1> DEFINE arg == <<k, ui[k].name, ui[k].fields>>
<1>1. /\ net' = Send(net, "save-test", arg) /\ UNCHANGED srv /\ ui[k].saving = FALSE
      /\ ui[k].fields.of = ui[k].name
  BY ConnsCalls DEF Conns!Submit, Conns!FormShown, ConnsInv, FormsOK, Form, FormNames
<1>2. arg[1] = k /\ arg[2] = ui[k].name /\ arg[3] = ui[k].fields
  OBVIOUS
<1>4. FormsOK(ui') /\ ui'[k].saving = TRUE /\ \A j \in FormNames : j # k => ui'[j].saving = ui[j].saving
  <2>1. CASE k = "add"
    BY <2>1 DEF Conns!Submit, ConnsInv, FormsOK, Form, Has, FormNames
  <2>2. CASE k = "edit"
    BY <2>2 DEF Conns!Submit, ConnsInv, FormsOK, Form, Has, FormNames
  <2> QED
    BY <2>1, <2>2 DEF FormNames
<1> HIDE DEF arg
<1>5. "save-test" \in SaveKinds
  BY DEF SaveKinds
<1>6. ASSUME NEW j \in FormNames PROVE OneSave(net', j, ui'[j].saving)
  <2>1. CASE j = k
    <3>1. OneSave(net, k, FALSE)
      BY <1>1 DEF ConnsInv
    <3> QED
      BY <1>1, <1>2, <1>4, <1>5, <2>1, <3>1, SaveSent
  <2>2. CASE j # k
    <3>1. OneSave(net, j, ui[j].saving) /\ ui[j].saving \in BOOLEAN
      BY DEF ConnsInv, FormsOK, Form, FormNames
    <3> QED
      BY <1>1, <1>2, <1>4, <2>2, <3>1, OtherSent
  <2> QED
    BY <2>1, <2>2
<1>7. CallOK(Call("save-test", arg), srv)
  BY <1>1, <1>2 DEF CallOK, Call
<1>8. \A c \in BagToSet(net') : CallOK(c, srv)
  BY <1>1, <1>7, SentCalls DEF ConnsInv, CallOK
<1> QED
  BY <1>1, <1>4, <1>6, <1>8 DEF ConnsInv

LEMMA UserConns == ConnsInv /\ Conns!User => ConnsInv'
<1> SUFFICES ASSUME ConnsInv, Conns!User PROVE ConnsInv'
  OBVIOUS
<1> DEFINE Still == /\ FormsOK(ui') /\ ui'.add.saving = ui.add.saving
                    /\ ui'.edit.saving = ui.edit.saving /\ UNCHANGED srv
<1>1. CASE Conns!Retry
  <2>1. Still /\ net' = Send(net, "list", <<>>)
    BY <1>1, ConnsCalls DEF Conns!Retry, Conns!Refresh, ConnsInv, FormsOK, Form, Has
  <2> QED
    BY <2>1, ConnsStay
<1>2. CASE Conns!ToggleAdd \/ Conns!CancelAdd \/ Conns!CancelEdit
           \/ \E n \in Names : Conns!EditStart(n)
  <2>1. Still /\ net' = net
    <3>1. CASE Conns!ToggleAdd
      BY <3>1 DEF Conns!ToggleAdd, Conns!Set, Conns!Closed, Conns!Fields, ConnsInv, FormsOK, Form,
         Has
    <3>2. CASE Conns!CancelAdd \/ Conns!CancelEdit
      BY <3>2 DEF Conns!CancelAdd, Conns!CancelEdit, Conns!Set, ConnsInv, FormsOK, Form, Has
    <3>3. ASSUME NEW n \in Names, Conns!EditStart(n) PROVE Still /\ net' = net
      BY <3>3 DEF Conns!EditStart, Conns!Set, Conns!Fields, ConnsInv, FormsOK, Form, Has
    <3> QED
      BY <1>2, <3>1, <3>2, <3>3
  <2> QED
    BY <2>1, ConnsStay
<1>3. ASSUME NEW k \in FormNames, NEW x, Conns!Type(k, x) PROVE ConnsInv'
  <2>1. Still /\ net' = net
    <3>1. CASE k = "add"
      BY <1>3, <3>1 DEF Conns!Type, Conns!Set, ConnsInv, FormsOK, Form, Has
    <3>2. CASE k = "edit"
      BY <1>3, <3>2 DEF Conns!Type, Conns!Set, ConnsInv, FormsOK, Form, Has
    <3> QED
      BY <3>1, <3>2 DEF FormNames
  <2> QED
    BY <2>1, ConnsStay
<1>4. ASSUME NEW k \in FormNames, NEW which, Conns!Test(k, which) PROVE ConnsInv'
  <2>1. Still
    <3>1. CASE k = "add"
      BY <1>4, <3>1 DEF Conns!Test, ConnsInv, FormsOK, Form, Has
    <3>2. CASE k = "edit"
      BY <1>4, <3>2 DEF Conns!Test, ConnsInv, FormsOK, Form, Has
    <3> QED
      BY <3>1, <3>2 DEF FormNames
  <2>2. net' = Send(net, "test", <<k, which, ui[k].fields.x>>)
    BY <1>4, ConnsCalls DEF Conns!Test
  <2> QED
    BY <2>1, <2>2, ConnsStay
<1> QED
  BY <1>1, <1>2, <1>3, <1>4, SubmitKeeps DEF Conns!User, Conns!Forms, FormNames

\* A save ends, or goes on from its test to the save itself.
LEMMA SaveAnswerKeeps ==
    ASSUME ConnsInv, NEW k \in FormNames, NEW c \in SavesOf(net, k),
           \/ c.kind = "save-test" /\ (Conns!TestedOK(c) \/ Conns!TestedBad(c) \/ Conns!NotSaved(c))
           \/ c.kind = "save" /\ (Conns!Saved(c) \/ Conns!NotSaved(c))
    PROVE  ConnsInv'
<1>1. c \in BagToSet(net) /\ c.arg[1] = k /\ CallOK(c, srv) /\ c.kind \in SaveKinds
  BY DEF SavesOf, ConnsInv
<1>2. \A j \in FormNames : ui[j].saving \in BOOLEAN /\ OneSave(net, j, ui[j].saving)
  BY DEF ConnsInv, FormsOK, Form, FormNames
<1>3. ui[k].saving = TRUE /\ OneSave(Settled(net, c), k, FALSE)
  BY <1>2, SaveSettles
<1>4. \A j \in FormNames : j # k => OneSave(Settled(net, c), j, ui[j].saving)
  BY <1>1, <1>2, OtherSettles DEF SavesOf
<1>5. BagToSet(Settled(net, c)) \subseteq BagToSet(net)
  BY SettledCalls
<1>6. CASE Conns!TestedOK(c)
  <2>1. /\ net' = Send(Settled(net, c), "save", c.arg) /\ UNCHANGED srv /\ c.arg[3].x \in srv
    BY <1>6, ConnsCalls DEF Conns!TestedOK
  <2>2. FormsOK(ui') /\ \A j \in FormNames : ui'[j].saving = ui[j].saving
    <3> DEFINE f == [ui[k] EXCEPT !.status = Conns!Statuses("ok")]
    <3>1. Form(f) /\ f.name = ui[k].name /\ f.fields = ui[k].fields /\ f.saving = ui[k].saving
      BY FormIs DEF Form, Has
    <3>2. ui' = [ui EXCEPT ![k] = f]
      BY <1>1, <1>6 DEF Conns!TestedOK
    <3> HIDE DEF f
    <3>3. FormsOK(ui) /\ f.fields.of = ui[k].fields.of
      BY <3>1, FormIs
    <3>4. /\ FormsOK(ui') /\ ui'[k].saving = f.saving
          /\ \A j \in FormNames : j # k => ui'[j].saving = ui[j].saving
      BY <3>1, <3>2, <3>3, FormSet
    <3> QED
      BY <3>1, <3>4
  <2>3. "save" \in SaveKinds
    BY DEF SaveKinds
  <2>4. OneSave(net', k, TRUE)
    BY <1>1, <1>3, <2>1, <2>3, SaveSent
  <2>5. ASSUME NEW j \in FormNames, j # k PROVE OneSave(net', j, ui[j].saving)
    BY <1>1, <1>2, <1>4, <2>1, <2>5, OtherSent
  <2>6. CallOK(Call("save", c.arg), srv)
    BY <1>1, <2>1 DEF CallOK, Call
  <2>7. \A d \in BagToSet(net') : CallOK(d, srv)
    BY <1>5, <2>1, <2>6, SentCalls DEF ConnsInv, CallOK
  <2> QED
    BY <1>3, <2>1, <2>2, <2>4, <2>5, <2>7 DEF ConnsInv
<1>7. CASE Conns!TestedBad(c) \/ Conns!NotSaved(c)
  <2>1. net' = Settled(net, c) /\ UNCHANGED srv
    BY <1>7, ConnsCalls DEF Conns!TestedBad, Conns!NotSaved, Conns!Got
  <2>2. /\ FormsOK(ui') /\ ui'[k].saving = FALSE
        /\ \A j \in FormNames : j # k => ui'[j].saving = ui[j].saving
    <3>1. \E f : /\ ui' = [ui EXCEPT ![k] = f] /\ Form(f) /\ f.saving = FALSE
                 /\ f.name = ui[k].name /\ f.fields = ui[k].fields
      <4>1. CASE Conns!TestedBad(c)
        <5> DEFINE f == [ui[k] EXCEPT !.saving = FALSE, !.status = Conns!Statuses("error")]
        <5>1. Form(f) /\ f.name = ui[k].name /\ f.fields = ui[k].fields /\ f.saving = FALSE
          BY FormIs DEF Form, Has
        <5>2. ui' = [ui EXCEPT ![k] = f]
          BY <1>1, <4>1 DEF Conns!TestedBad, Conns!Got
        <5> QED
          BY <5>1, <5>2
      <4>2. CASE Conns!NotSaved(c)
        <5> DEFINE f == [ui[k] EXCEPT !.saving = FALSE]
        <5>1. Form(f) /\ f.name = ui[k].name /\ f.fields = ui[k].fields /\ f.saving = FALSE
          BY FormIs DEF Form, Has
        <5>2. ui' = [ui EXCEPT ![k] = f]
          BY <1>1, <4>2 DEF Conns!NotSaved, Conns!Got
        <5> QED
          BY <5>1, <5>2
      <4> QED
        BY <1>7, <4>1, <4>2
    <3> QED
      BY <3>1, FormSet, FormIs
  <2> QED
    BY <1>3, <1>4, <1>5, <2>1, <2>2 DEF ConnsInv, CallOK
<1>8. CASE Conns!Saved(c)
  <2>1. net' = Send(Settled(net, c), "list", <<>>) /\ UNCHANGED srv
    BY <1>8, ConnsCalls DEF Conns!Saved
  <2>2. /\ FormsOK(ui') /\ ui'[k].saving = FALSE
        /\ \A j \in FormNames : j # k => ui'[j].saving = ui[j].saving
    <3>1. CASE k = "add"
      <4> DEFINE r == [Conns!Refresh(ui) EXCEPT !["add"].saving = FALSE]
                 f == [r.add EXCEPT !.fields = Conns!Fields(Absent, "empty"),
                                    !.status = Conns!Statuses("idle")]
      <4>1. FormsOK(r) /\ r.add.saving = FALSE /\ r.edit.saving = ui.edit.saving
        BY DEF Conns!Refresh, ConnsInv, FormsOK, Form, Has
      <4>2. ui' = [r EXCEPT !.showAdd = FALSE, !.add = f]
        BY <1>1, <1>8, <3>1 DEF Conns!Saved
      <4>3. f.name = r.add.name /\ f.saving = FALSE /\ f.fields.of = Absent /\ Form(f)
        BY <4>1 DEF Conns!Fields, FormsOK, Form, Has
      <4> HIDE DEF r, f
      <4> QED
        BY <3>1, <4>1, <4>2, <4>3 DEF FormsOK, Has, FormNames
    <3>2. CASE k = "edit"
      <4> DEFINE r == [Conns!Refresh(ui) EXCEPT !["edit"].saving = FALSE]
      <4>1. FormsOK(r) /\ r.edit.saving = FALSE /\ r.add.saving = ui.add.saving
        BY DEF Conns!Refresh, ConnsInv, FormsOK, Form, Has
      <4>2. ui' = [r EXCEPT !.edit.name = Absent]
        BY <1>1, <1>8, <3>2 DEF Conns!Saved
      <4> HIDE DEF r
      <4> QED
        BY <3>2, <4>1, <4>2 DEF FormsOK, Form, Has, FormNames
    <3> QED
      BY <3>1, <3>2 DEF FormNames
  <2>3. "list" \notin SaveKinds
    BY DEF SaveKinds
  <2>4. OneSave(net', k, FALSE)
    BY <1>3, <2>1, <2>3, OtherSent
  <2>5. ASSUME NEW j \in FormNames, j # k PROVE OneSave(net', j, ui[j].saving)
    BY <1>2, <1>4, <2>1, <2>3, <2>5, OtherSent
  <2>6. CallOK(Call("list", <<>>), srv)
    BY DEF CallOK, Call, SaveKinds
  <2>7. \A d \in BagToSet(net') : CallOK(d, srv)
    BY <1>5, <2>1, <2>6, SentCalls DEF ConnsInv, CallOK
  <2> QED
    BY <2>1, <2>2, <2>4, <2>5, <2>7 DEF ConnsInv
<1> QED
  BY <1>6, <1>7, <1>8

LEMMA AnswersConns == ConnsInv /\ Conns!Deliver => ConnsInv'
<1> SUFFICES ASSUME ConnsInv, Conns!Deliver PROVE ConnsInv'
  OBVIOUS
<1>1. ASSUME NEW k \in FormNames, Conns!SaveAnswers(k) PROVE ConnsInv'
  BY <1>1, SaveAnswerKeeps, ConnsCalls DEF Conns!SaveAnswers, SavesOf, SaveKinds, InFlight
<1>2. ASSUME NEW c \in BagToSet(net), c.kind = "list", Conns!ShowList(c) \/ Conns!ShowListError(c)
      PROVE  ConnsInv'
  <2>1. /\ FormsOK(ui') /\ ui'.add.saving = ui.add.saving /\ ui'.edit.saving = ui.edit.saving
        /\ UNCHANGED srv /\ net' = Settled(net, c)
    BY <1>2, ConnsCalls DEF Conns!ShowList, Conns!ShowListError, Conns!Got, ConnsInv, FormsOK, Form,
       Has
  <2> QED
    BY <1>2, <2>1, ConnsStay DEF SaveKinds
<1>3. ASSUME NEW c \in BagToSet(net), c.kind = "test", Conns!ShowTest(c) \/ Conns!TestFailed(c)
      PROVE  ConnsInv'
  <2>1. c.arg[1] \in FormNames
    BY <1>3 DEF ConnsInv, CallOK
  <2>2. /\ FormsOK(ui') /\ ui'.add.saving = ui.add.saving /\ ui'.edit.saving = ui.edit.saving
    <3>1. CASE c.arg[1] = "add"
      BY <1>3, <3>1 DEF Conns!ShowTest, Conns!TestFailed, Conns!Got, ConnsInv, FormsOK, Form, Has
    <3>2. CASE c.arg[1] = "edit"
      BY <1>3, <3>2 DEF Conns!ShowTest, Conns!TestFailed, Conns!Got, ConnsInv, FormsOK, Form, Has
    <3> QED
      BY <2>1, <3>1, <3>2 DEF FormNames
  <2>3. UNCHANGED srv /\ net' = Settled(net, c)
    BY <1>3, ConnsCalls DEF Conns!ShowTest, Conns!TestFailed, Conns!Got
  <2> QED
    BY <1>3, <2>2, <2>3, ConnsStay DEF SaveKinds
<1>4. "add" \in FormNames /\ "edit" \in FormNames
  BY DEF FormNames
<1> QED
  BY <1>1, <1>2, <1>3, <1>4, ConnsCalls DEF Conns!Deliver, Conns!Answers, InFlight

ConnsKept == tab = "connections" => ConnsInv

LEMMA ConnsKeeps == ASSUME ConnsKept, [Next]_vars PROVE ConnsKept'
<1> SUFFICES ASSUME tab' = "connections" PROVE ConnsInv'
  BY DEF ConnsKept
<1>1. tab = "connections" /\ ConnsInv
  BY TabStays DEF ConnsKept
<1>2. CASE Conns!Next
  BY <1>1, <1>2, UserConns, AnswersConns DEF Conns!Next
<1>3. CASE UNCHANGED vars
  BY <1>1, <1>3, ConnsStay DEF vars, ConnsInv, FormsOK
<1> QED
  BY <1>1, <1>2, <1>3 DEF Next, Step

(* What is saved under a connection's name was typed into its own form and  *)
(* is what Git and ArgoCD accept, and a form has one save under way at most *)
(* (testAndSave, Connections.tsx).                                          *)
THEOREM SavedConnectionWasTested == Spec => []SavedWasTested
<1>1. Init => ConnsKept
  BY InitConns DEF Init, ConnsKept
<1>2. ConnsKept => SavedWasTested
  <2> SUFFICES ASSUME ConnsInv PROVE Conns!SavedWasTested
    BY DEF ConnsKept, SavedWasTested
  <2>1. \A c \in InFlight(net, "save") : c.arg[3].of = c.arg[2] /\ c.arg[3].x \in srv
    BY DEF ConnsInv, CallOK, InFlight, SaveKinds
  <2>2. ASSUME NEW k \in FormNames
        PROVE  Cardinality(SavesOf(net, k)) = IF ui[k].saving THEN 1 ELSE 0
    BY FS_EmptySet, FS_Singleton DEF ConnsInv, OneSave
  <2>3. \A k : SavesOf(net, k)
                 = {c \in Conns!BagToSet(net) : c.kind \in {"save-test", "save"} /\ c.arg[1] = k}
    BY DEF SavesOf, SaveKinds, BagToSet, Conns!BagToSet
  <2>4. \A S : Conns!Cardinality(S) = Cardinality(S)
    BY DEF Conns!Cardinality, Cardinality
  <2> QED
    BY <2>1, <2>2, <2>3, <2>4, ConnsCalls DEF Conns!SavedWasTested, Conns!Forms, FormNames
<1> QED
  BY <1>1, <1>2, ConnsKeeps, PTL DEF Spec

----------------------------------------------------------------------------
(* The AI provider of the settings page.                                    *)

LEMMA AICalls ==
    /\ AI!NoCalls = NoCalls
    /\ \A b, kind, arg : AI!Send(b, kind, arg) = Send(b, kind, arg)
    /\ \A b, c : AI!Settled(b, c) = Settled(b, c)
    /\ \A b, kind : AI!InFlight(b, kind) = InFlight(b, kind)
BY DEF AI!NoCalls, NoCalls, AI!EmptyBag, EmptyBag, AI!SetToBag, SetToBag, AI!Send, Send,
   AI!Call, Call, AI!Settled, Settled, AI!InFlight, InFlight, AI!BagToSet, BagToSet,
   AI!(+), (+), AI!(-), (-)

\* The fields of the page and of the server, whatever they hold.
AITyped ==
    /\ ui = [config |-> ui.config, loading |-> ui.loading, testing |-> ui.testing,
             saving |-> ui.saving, showForm |-> ui.showForm, form |-> ui.form, status |-> ui.status]
    /\ srv = [stored |-> srv.stored, good |-> srv.good, tested |-> srv.tested,
              changed |-> srv.changed]
    /\ srv.changed \in BOOLEAN

\* As long as no test is of an earlier form, a test is about the form on the
\* page, and a form that passed is one that was tested.
AITestedForm ==
    /\ ui.status = "ok" => ui.form \in srv.tested
    /\ \A c \in BagToSet(net) : c.kind = "ai-form-test" => c.arg[1] = ui.form

AISaves ==
    \A c \in BagToSet(net) : c.kind = "ai-save" => c.arg[2] \/ c.arg[1] \in srv.tested

AIInv == AITyped /\ AISaves /\ (~srv.changed => AITestedForm)

LEMMA InitAI == AI!Init => AIInv
<1> SUFFICES ASSUME AI!Init PROVE AIInv
  OBVIOUS
<1>1. AITyped
  BY DEF AI!Init, AITyped
<1>2. BagToSet(net) = {Call("ai-config", <<>>)}
  BY AICalls, SentCalls, NoCallsYet DEF AI!Init
<1>3. AITestedForm
  BY <1>2 DEF AI!Init, AITestedForm, Call
<1>4. AISaves
  BY <1>2 DEF AISaves, Call
<1> QED
  BY <1>1, <1>3, <1>4 DEF AIInv

\* A request that leaves while the form stays as it is, other than a test of it.
LEMMA AsksAI ==
    ASSUME AIInv, NEW u, NEW kind, NEW arg, AI!Asks(u, kind, arg),
           AITyped', ui'.form = ui.form, ui'.status = ui.status, kind # "ai-form-test",
           kind = "ai-save" => ui.status = "ok" /\ arg[1] = ui.form /\ arg[2] = srv.changed
    PROVE  AIInv'
<1>1. BagToSet(net') = BagToSet(net) \cup {Call(kind, arg)} /\ UNCHANGED srv
  BY AICalls, SentCalls DEF AI!Asks
<1>2. ~srv'.changed => AITestedForm'
  BY <1>1 DEF AIInv, AITestedForm, Call
<1>3. kind = "ai-save" => arg[2] \/ arg[1] \in srv.tested
  BY DEF AIInv, AITestedForm
<1>4. AISaves'
  BY <1>1, <1>3 DEF AIInv, AISaves, Call
<1> QED
  BY <1>2, <1>4 DEF AIInv

LEMMA TestFormAI == ASSUME AIInv, AI!TestForm PROVE AIInv'
<1> DEFINE ch == InFlight(net, "ai-form-test") # {} /\ srv.changed
           arg == <<ui.form>>
<1>1. /\ ui' = [ui EXCEPT !.status = "testing"]
      /\ srv' = [srv EXCEPT !.changed = ch]
      /\ BagToSet(net') = BagToSet(net) \cup {Call("ai-form-test", arg)}
  BY AICalls, SentCalls DEF AI!TestForm, AIInv, AITyped
<1>2. arg[1] = ui.form /\ ch \in BOOLEAN /\ (~ch => ~srv.changed \/ InFlight(net, "ai-form-test") = {})
  OBVIOUS
<1> HIDE DEF ch, arg
<1>3. AITyped' /\ ui'.form = ui.form /\ ui'.status = "testing"
      /\ srv'.tested = srv.tested /\ srv'.changed = ch
  BY <1>1, <1>2 DEF AIInv, AITyped
<1>4. AISaves'
  BY <1>1, <1>3 DEF AIInv, AISaves, Call
<1>5. ~ch => AITestedForm'
  BY <1>1, <1>2, <1>3 DEF AIInv, AITestedForm, Call, InFlight
<1> QED
  BY <1>3, <1>4, <1>5 DEF AIInv

\* The form changes, or is filled in anew.
LEMMA SetFormAI ==
    ASSUME AIInv, NEW u, AI!SetForm(u), AITyped', ui'.status = "idle"
    PROVE  AIInv'
<1> DEFINE ch == IF u.form # ui.form THEN InFlight(net, "ai-form-test") # {} ELSE srv.changed
<1>1. ui' = u /\ srv' = [srv EXCEPT !.changed = ch] /\ UNCHANGED net
  BY AICalls DEF AI!SetForm, AIInv, AITyped
<1>2. ~ch => IF u.form # ui.form THEN InFlight(net, "ai-form-test") = {} ELSE ~srv.changed
  OBVIOUS
<1> HIDE DEF ch
<1>3. srv'.tested = srv.tested /\ srv'.changed = ch
  BY <1>1 DEF AIInv, AITyped
<1>4. AISaves'
  BY <1>1, <1>3 DEF AIInv, AISaves
<1>5. ~ch => AITestedForm'
  BY <1>1, <1>2 DEF AIInv, AITestedForm, InFlight
<1> QED
  BY <1>3, <1>4, <1>5 DEF AIInv

LEMMA UserAI == AI!User /\ AIInv => AIInv'
<1> SUFFICES ASSUME AI!User, AIInv PROVE AIInv'
  OBVIOUS
<1>1. CASE AI!TestStored
  <2>1. AITyped' /\ ui'.form = ui.form /\ ui'.status = ui.status
    BY <1>1 DEF AI!TestStored, AI!Asks, AIInv, AITyped
  <2> QED
    BY <1>1, <2>1, AsksAI DEF AI!TestStored
<1>2. CASE AI!Disable
  <2>1. AITyped' /\ ui'.form = ui.form /\ ui'.status = ui.status
    BY <1>2 DEF AI!Disable, AI!Asks, AIInv, AITyped
  <2> QED
    BY <1>2, <2>1, AsksAI DEF AI!Disable
<1>3. CASE AI!OpenForm
  <2> DEFINE u(x) == [ui EXCEPT !.showForm = TRUE, !.status = "idle", !.form = x]
  <2>1. PICK x : AI!SetForm(u(x))
    BY <1>3 DEF AI!OpenForm
  <2>2. ui' = u(x) /\ srv' = [srv EXCEPT !.changed = srv'.changed] /\ srv'.changed \in BOOLEAN
    BY <2>1 DEF AI!SetForm, AIInv, AITyped
  <2>3. AITyped' /\ ui'.status = "idle"
    BY <2>2 DEF AIInv, AITyped
  <2> HIDE DEF u
  <2> QED
    BY <2>1, <2>3, SetFormAI
<1>4. CASE AI!CancelForm
  <2>1. /\ AITyped' /\ UNCHANGED <<net, srv>>
        /\ ui'.form = ui.form /\ ui'.status = ui.status
    BY <1>4 DEF AI!CancelForm, AI!Set, AIInv, AITyped
  <2> QED
    BY <2>1 DEF AIInv, AISaves, AITestedForm
<1>5. CASE AI!TestForm
  BY <1>5, TestFormAI
<1>6. CASE AI!SaveForm
  <2>1. AITyped' /\ ui'.form = ui.form /\ ui'.status = ui.status
    BY <1>6 DEF AI!SaveForm, AI!Asks, AIInv, AITyped
  <2> DEFINE arg == <<ui.form, srv.changed>>
             u == [ui EXCEPT !.saving = TRUE]
  <2>2. ui.status = "ok" /\ AI!Asks(u, "ai-save", arg) /\ arg[1] = ui.form /\ arg[2] = srv.changed
    BY <1>6 DEF AI!SaveForm
  <2> HIDE DEF arg, u
  <2> QED
    BY <2>1, <2>2, AsksAI
<1>7. ASSUME NEW x \in Configs, AI!ChangeForm(x) PROVE AIInv'
  <2>1. AITyped' /\ ui'.status = "idle"
    BY <1>7 DEF AI!ChangeForm, AI!SetForm, AIInv, AITyped
  <2> QED
    BY <1>7, <2>1, SetFormAI DEF AI!ChangeForm
<1> QED
  BY <1>1, <1>2, <1>3, <1>4, <1>5, <1>6, <1>7 DEF AI!User

\* An answer is taken; nothing that was tested is forgotten, and what the
\* page calls tested was.
LEMMA GotAI ==
    ASSUME AIInv, AITyped', BagToSet(net') \subseteq BagToSet(net) \cup {Call("ai-config", <<>>)},
           srv'.changed = srv.changed, srv.tested \subseteq srv'.tested, ui'.form = ui.form,
           ~srv.changed /\ ui'.status = "ok" => ui.status = "ok" \/ ui.form \in srv'.tested
    PROVE  AIInv'
<1>1. ~srv.changed => AITestedForm'
  BY DEF AIInv, AITestedForm, Call
<1>2. AISaves'
  BY DEF AIInv, AISaves, Call
<1> QED
  BY <1>1, <1>2 DEF AIInv

LEMMA AnswersAI == AI!Deliver /\ AIInv => AIInv'
<1> SUFFICES ASSUME AI!Deliver, AIInv PROVE AIInv'
  OBVIOUS
<1>1. ASSUME NEW c, net' = Settled(net, c), UNCHANGED srv, AITyped', ui'.form = ui.form,
             ui'.status # "ok" \/ ui'.status = ui.status
      PROVE  AIInv'
  <2>1. BagToSet(net') \subseteq BagToSet(net)
    BY <1>1, SettledCalls
  <2> QED
    BY <1>1, <2>1, GotAI
<1>2. ASSUME NEW c, NEW x, NEW u, AI!Stored(c, x, u), AITyped', u.form = ui.form,
             ui'.form = ui.form, srv'.tested = srv.tested, srv'.changed = srv.changed,
             ui'.status # "ok" \/ ui'.status = ui.status
      PROVE  AIInv'
  <2>1. BagToSet(net') \subseteq BagToSet(net) \cup {Call("ai-config", <<>>)}
    BY <1>2, AICalls, SettledCalls, SentCalls DEF AI!Stored
  <2> QED
    BY <1>2, <2>1, GotAI
<1>3. ASSUME NEW c, AI!ShowConfig(c) \/ AI!NoAnswer(c) \/ AI!ShowStoredTest(c) \/ AI!FormFails(c)
                    \/ AI!SaveFails(c) \/ AI!DisableFails(c)
      PROVE  AIInv'
  <2>1. /\ net' = Settled(net, c) /\ UNCHANGED srv
        /\ AITyped' /\ ui'.form = ui.form
        /\ ui'.status # "ok" \/ ui'.status = ui.status
    BY <1>3, AICalls DEF AI!ShowConfig, AI!NoAnswer, AI!ShowStoredTest, AI!FormFails, AI!SaveFails, AI!DisableFails, AI!Got,
       AIInv, AITyped
  <2> QED
    BY <2>1, <1>1
<1>4. ASSUME NEW c, AI!FormSaved(c) PROVE AIInv'
  BY <1>4, <1>2 DEF AI!FormSaved, AI!Stored, AIInv, AITyped
<1>5. ASSUME NEW c, AI!Disabled(c) PROVE AIInv'
  BY <1>5, <1>2 DEF AI!Disabled, AI!Stored, AIInv, AITyped
<1>6. ASSUME NEW c \in InFlight(net, "ai-form-test"), AI!FormAnswers(c) PROVE AIInv'
  <2>1. /\ AITyped' /\ BagToSet(net') \subseteq BagToSet(net)
        /\ srv'.changed = srv.changed /\ srv'.tested = srv.tested \cup {c.arg[1]}
        /\ ui'.form = ui.form
    BY <1>6, AICalls, SettledCalls DEF AI!FormAnswers, AIInv, AITyped
  <2>2. ~srv.changed => c.arg[1] = ui.form
    BY DEF AIInv, AITestedForm, InFlight
  <2> QED
    BY <2>1, <2>2, GotAI
<1> QED
  BY <1>3, <1>4, <1>5, <1>6, AICalls DEF AI!Deliver, AI!Answers

AIKept == tab = "ai" => AIInv

LEMMA AIKeeps == ASSUME AIKept, [Next]_vars PROVE AIKept'
<1> SUFFICES ASSUME tab' = "ai" PROVE AIInv'
  BY DEF AIKept
<1>1. tab = "ai" /\ AIInv
  BY TabStays DEF AIKept
<1>2. CASE AI!Next
  BY <1>1, <1>2, UserAI, AnswersAI DEF AI!Next
<1>3. CASE UNCHANGED vars
  BY <1>1, <1>3 DEF vars, AIInv, AITyped, AISaves, AITestedForm
<1> QED
  BY <1>1, <1>2, <1>3 DEF Next, Step

(* What is saved was tested, as it is, and answered; only a save that the   *)
(* verdict on an earlier form let through is not covered (Connections.tsx). *)
THEOREM SavedFormWasTested == Spec => []AISavedWasTested
<1>1. Init => AIKept
  BY InitAI DEF Init, AIKept
<1>2. AIKept => AISavedWasTested
  BY AICalls DEF AIKept, AIInv, AISaves, AISavedWasTested, AI!AISavedWasTested, InFlight
<1> QED
  BY <1>1, <1>2, AIKeeps, PTL DEF Spec

----------------------------------------------------------------------------
(* The embedded dashboards.                                                 *)

LEMMA BoardsCalls ==
    /\ Boards!NoCalls = NoCalls
    /\ \A b, kind, arg : Boards!Send(b, kind, arg) = Send(b, kind, arg)
    /\ \A b, c : Boards!Settled(b, c) = Settled(b, c)
    /\ \A b, kind : Boards!InFlight(b, kind) = InFlight(b, kind)
BY DEF Boards!NoCalls, NoCalls, Boards!EmptyBag, EmptyBag, Boards!SetToBag, SetToBag, Boards!Send, Send,
   Boards!Call, Call, Boards!Settled, Settled, Boards!InFlight, InFlight, Boards!BagToSet, BagToSet,
   Boards!(+), (+), Boards!(-), (-)

\* A single call, and nothing once it has settled.
LEMMA OneCall ==
    ASSUME NEW kind, NEW arg
    PROVE  /\ BagToSet(Send(NoCalls, kind, arg)) = {Call(kind, arg)}
           /\ Settled(Send(NoCalls, kind, arg), Call(kind, arg)) = NoCalls
<1>1. BagToSet(Send(NoCalls, kind, arg)) = {Call(kind, arg)}
  BY SentCalls, NoCallsYet
<1>2. Send(NoCalls, kind, arg) = [c \in {Call(kind, arg)} |-> 1]
  BY DEF Send, NoCalls, EmptyBag, SetToBag, (+)
<1>3. Settled(Send(NoCalls, kind, arg), Call(kind, arg)) = [c \in {} |-> 1]
  BY <1>2 DEF Settled, SetToBag, (-)
<1> QED
  BY <1>1, <1>3 DEF NoCalls, EmptyBag, SetToBag

BoardFields == {"list", "loaded", "selected", "showForm", "editing", "x", "next"}

BoardsTyped == Has(ui, BoardFields)

\* What the one request is about, while page and server have not gone apart:
\* the list that is stored, or the one that is shown.
UnderWay ==
    \/ net = NoCalls /\ ui.list = srv.stored
    \/ net = Send(NoCalls, "dashboards", <<>>)
    \/ net = Send(NoCalls, "save", <<ui.list>>)

BoardsInv ==
    /\ BoardsTyped
    /\ srv = [stored |-> srv.stored, browser |-> srv.browser, apart |-> srv.apart]
    /\ srv.apart \in BOOLEAN
    /\ ~srv.apart => UnderWay

LEMMA InitBoards == Boards!Init => BoardsInv
<1> SUFFICES ASSUME Boards!Init PROVE BoardsInv
  OBVIOUS
<1>1. BoardsTyped
  BY DEF Boards!Init, BoardsTyped, Has, BoardFields
<1>2. net = Send(NoCalls, "dashboards", <<>>)
  BY BoardsCalls DEF Boards!Init
<1>3. /\ srv = [stored |-> srv.stored, browser |-> srv.browser, apart |-> srv.apart]
      /\ srv.apart \in BOOLEAN
  BY DEF Boards!Init
<1> QED
  BY <1>1, <1>2, <1>3 DEF BoardsInv, UnderWay

LEMMA Renders ==
    ASSUME NEW u, Boards!Render(u),
           Has(u, BoardFields)
    PROVE  BoardsTyped' /\ ui'.list = u.list
BY DEF Boards!Render, BoardsTyped, Has, BoardFields

\* A change that is not saved, and one that is.
LEMMA BoardsSet ==
    ASSUME BoardsInv, BoardsTyped', ui'.list = ui.list, UNCHANGED <<net, srv>>
    PROVE  BoardsInv'
BY DEF BoardsInv, UnderWay

LEMMA BoardsPersist ==
    ASSUME BoardsInv, NEW u, NEW list, Boards!Persist(u, list),
           Has(u, BoardFields)
    PROVE  BoardsInv'
<1> DEFINE v == [u EXCEPT !.list = list]
<1>1. v.list = list /\ Has(v, BoardFields)
  BY DEF Has
<1>2. /\ Boards!Render(v) /\ net' = Send(net, "save", <<list>>)
      /\ srv' = [srv EXCEPT !.apart = net # NoCalls]
  BY BoardsCalls DEF Boards!Persist
<1> HIDE DEF v
<1>3. BoardsTyped' /\ ui'.list = list
  BY <1>1, <1>2, Renders
<1>4. ~srv'.apart => net = NoCalls
  BY <1>2 DEF BoardsInv
<1>5. /\ srv' = [stored |-> srv'.stored, browser |-> srv'.browser, apart |-> srv'.apart]
      /\ srv'.apart \in BOOLEAN
  BY <1>2 DEF BoardsInv
<1> QED
  BY <1>2, <1>3, <1>4, <1>5 DEF BoardsInv, UnderWay

LEMMA UserBoards == BoardsInv /\ Boards!User => BoardsInv'
<1> SUFFICES ASSUME BoardsInv, Boards!User PROVE BoardsInv'
  OBVIOUS
<1> USE DEF Boards!Set
<1>1. CASE \/ Boards!OpenAdd \/ Boards!CancelAdd \/ Boards!CancelEdit \/ Boards!Edit
           \/ \E id \in Boards!Ids : Boards!Select(id)
           \/ \E x \in Inputs : Boards!Type(x)
  <2>1. BoardsTyped' /\ ui'.list = ui.list /\ UNCHANGED <<net, srv>>
    BY <1>1 DEF Boards!OpenAdd, Boards!CancelAdd, Boards!CancelEdit, Boards!Edit, Boards!Select,
       Boards!Type, Boards!Render, BoardsTyped, Has, BoardFields, BoardsInv
  <2> QED
    BY <2>1, BoardsSet
<1>2. CASE \E x \in Inputs : Boards!Add(x)
  <2>1. PICK x \in Inputs : Boards!Add(x)
    BY <1>2
  <2> DEFINE u == [ui EXCEPT !.showForm = FALSE, !.next = @ + 1]
  <2>2. Has(u, BoardFields)
    BY DEF BoardsInv, BoardsTyped, Has, BoardFields
  <2>3. Boards!Persist(u, ui.list \cup {Boards!Dashboard(ui.next, x)})
    BY <2>1 DEF Boards!Add
  <2> HIDE DEF u
  <2> QED
    BY <2>2, <2>3, BoardsPersist
<1>3. CASE Boards!Update
  <2> DEFINE u == [ui EXCEPT !.editing = 0]
  <2>2. Has(u, BoardFields)
    BY DEF BoardsInv, BoardsTyped, Has, BoardFields
  <2>3. \E list : Boards!Persist(u, list)
    BY <1>3 DEF Boards!Update
  <2> HIDE DEF u
  <2> QED
    BY <2>2, <2>3, BoardsPersist
<1>4. CASE Boards!Remove
  <2> DEFINE id == Boards!EffectiveSelected
  <2> DEFINE u == [ui EXCEPT !.selected = IF @ = id THEN 0 ELSE @,
                             !.editing = IF @ = id THEN 0 ELSE @]
  <2>1. \E list : Boards!Persist(u, list)
    BY <1>4 DEF Boards!Remove
  <2> HIDE DEF id
  <2>2. Has(u, BoardFields)
    BY DEF BoardsInv, BoardsTyped, Has, BoardFields
  <2> HIDE DEF u
  <2> QED
    BY <2>1, <2>2, BoardsPersist
<1> QED
  BY <1>1, <1>2, <1>3, <1>4 DEF Boards!User

\* Nothing is under way once the one request has settled.
LEMMA BoardsSettle ==
    ASSUME BoardsInv, ~srv.apart, NEW c \in BagToSet(net)
    PROVE  /\ Settled(net, c) = NoCalls
           /\ c.kind = "save" => c.arg[1] = ui.list
<1>1. CASE net = NoCalls
  BY <1>1, NoCallsYet
<1>2. CASE net = Send(NoCalls, "dashboards", <<>>)
  <2>1. c = Call("dashboards", <<>>)
    BY <1>2, OneCall
  <2> QED
    BY <1>2, <2>1, OneCall DEF Call
<1>3. CASE net = Send(NoCalls, "save", <<ui.list>>)
  <2>1. c = Call("save", <<ui.list>>)
    BY <1>3, OneCall
  <2> QED
    BY <1>3, <2>1, OneCall DEF Call
<1> QED
  BY <1>1, <1>2, <1>3 DEF BoardsInv, UnderWay

LEMMA AnswersBoards == BoardsInv /\ Boards!Deliver => BoardsInv'
<1> SUFFICES ASSUME BoardsInv, Boards!Deliver PROVE BoardsInv'
  OBVIOUS
<1>1. ASSUME NEW c \in BagToSet(net), NEW list, NEW apart \in BOOLEAN,
             Boards!ShowList(c, list, apart), ~apart => list = srv.stored
      PROVE  BoardsInv'
  <2> DEFINE v == [ui EXCEPT !.list = list, !.loaded = TRUE]
  <2>1. v.list = list /\ Has(v, BoardFields)
    BY DEF BoardsInv, BoardsTyped, Has, BoardFields
  <2>2. /\ Boards!Render(v) /\ net' = Settled(net, c)
        /\ srv' = [srv EXCEPT !.apart = @ \/ apart]
    BY <1>1, BoardsCalls DEF Boards!ShowList
  <2> HIDE DEF v
  <2>3. BoardsTyped' /\ ui'.list = list
    BY <2>1, <2>2, Renders
  <2>4. /\ srv' = [stored |-> srv.stored, browser |-> srv.browser, apart |-> srv.apart \/ apart]
        /\ srv.apart \in BOOLEAN
    BY <2>2 DEF BoardsInv
  <2>5. ~srv'.apart => net' = NoCalls /\ ui'.list = srv'.stored
    BY <1>1, <2>2, <2>3, <2>4, BoardsSettle
  <2> QED
    BY <2>3, <2>4, <2>5 DEF BoardsInv, UnderWay
<1>2. ASSUME NEW c \in BagToSet(net), c.kind = "save", Boards!Saved(c) \/ Boards!SaveFailed(c)
      PROVE  BoardsInv'
  <2>1. CASE Boards!Saved(c)
    <3>1. /\ srv' = [stored |-> c.arg[1], browser |-> srv.browser, apart |-> srv.apart]
          /\ net' = Settled(net, c) /\ UNCHANGED ui
      BY <2>1, BoardsCalls DEF Boards!Saved, BoardsInv
    <3>2. ~srv'.apart => net' = NoCalls /\ ui'.list = srv'.stored
      BY <1>2, <3>1, BoardsSettle
    <3> QED
      BY <3>1, <3>2 DEF BoardsInv, BoardsTyped, Has, BoardFields, UnderWay
  <2>2. CASE Boards!SaveFailed(c)
    BY <2>2 DEF Boards!SaveFailed, BoardsInv, BoardsTyped, Has, BoardFields
  <2> QED
    BY <1>2, <2>1, <2>2
<1> QED
  BY <1>1, <1>2, BoardsCalls DEF Boards!Deliver, Boards!Answers, Boards!Listed, Boards!ListedEmpty,
     Boards!ListFailed, InFlight

BoardsKept == tab = "dashboards" => BoardsInv

LEMMA BoardsKeeps == ASSUME BoardsKept, [Next]_vars PROVE BoardsKept'
<1> SUFFICES ASSUME tab' = "dashboards" PROVE BoardsInv'
  BY DEF BoardsKept
<1>1. tab = "dashboards" /\ BoardsInv
  BY TabStays DEF BoardsKept
<1>2. CASE Boards!Next
  BY <1>1, <1>2, UserBoards, AnswersBoards DEF Boards!Next
<1>3. CASE UNCHANGED vars
  BY <1>1, <1>3 DEF vars, BoardsInv, BoardsTyped, Has, BoardFields, UnderWay
<1> QED
  BY <1>1, <1>2, <1>3 DEF Next, Step

(* The embedded dashboards that are shown are those that are stored once    *)
(* nothing is under way, if the last change was made while nothing else was *)
(* under way and no request has failed since, whatever came before          *)
(* (persist, useDashboards.ts).                                             *)
THEOREM ShownIsStored == Spec => []PageIsStored
<1>1. Init => BoardsKept
  BY InitBoards DEF Init, BoardsKept
<1>2. BoardsKept => PageIsStored
  <2> SUFFICES ASSUME BoardsInv, net = NoCalls, ~srv.apart PROVE ui.list = srv.stored
    BY BoardsCalls DEF BoardsKept, PageIsStored, Boards!PageIsStored
  <2>1. BagToSet(net) = {}
    BY NoCallsYet
  <2> QED
    <3>1. UnderWay
      BY DEF BoardsInv
    <3>2. \A kind, arg : net # Send(NoCalls, kind, arg)
      BY <2>1, OneCall
    <3> QED
      BY <3>1, <3>2, Zenon DEF UnderWay
<1> QED
  BY <1>1, <1>2, BoardsKeeps, PTL DEF Spec

----------------------------------------------------------------------------
(* The dialog that starts migrations.                                       *)

LEMMA DialogCalls ==
    /\ Dialog!NoCalls = NoCalls
    /\ \A b, kind, arg : Dialog!Send(b, kind, arg) = Send(b, kind, arg)
    /\ \A b, c : Dialog!Settled(b, c) = Settled(b, c)
    /\ \A b, kind : Dialog!InFlight(b, kind) = InFlight(b, kind)
BY DEF Dialog!NoCalls, NoCalls, Dialog!EmptyBag, EmptyBag, Dialog!SetToBag, SetToBag, Dialog!Send, Send,
   Dialog!Call, Call, Dialog!Settled, Settled, Dialog!InFlight, InFlight, Dialog!BagToSet, BagToSet,
   Dialog!(+), (+), Dialog!(-), (-)

\* What is left to be migrated is listed, so there is only so much of it.
LEMMA TodoOK == \A w \in Todo, c \in Clusters : IsFiniteSet(w[c])
<1> SUFFICES ASSUME NEW w \in Todo, NEW c \in Clusters PROVE IsFiniteSet(w[c])
  OBVIOUS
<1>1. w[c] \subseteq Addons /\ IsFiniteSet(Addons)
  BY AddonsAssumption
<1> QED
  BY <1>1, FS_Subset

\* SetToSeq lists a finite set, each element once.
LEMMA ListedOnce ==
    ASSUME NEW S, IsFiniteSet(S)
    PROVE  /\ Dialog!ToSet(Dialog!SetToSeq(S)) = S
           /\ Len(Dialog!SetToSeq(S)) = Cardinality(S)
<1> DEFINE n == Cardinality(S)
<1> DEFINE s == Dialog!SetToSeq(S)
<1>1. n \in Nat /\ \E f \in [1..n -> S] : IsInjective(f)
  BY FS_CardinalityType DEF ExistsBijection, Bijection, Injection
<1>2. s \in [1..n -> S] /\ IsInjective(s)
  BY <1>1 DEF Dialog!SetToSeq, Dialog!IsInjective, IsInjective, Dialog!Cardinality, Cardinality
<1> HIDE DEF s
<1>3. s \in Injection(1..n, S)
  BY <1>2 DEF Injection
<1>4. Cardinality(1..n) = n
  BY <1>1, FS_Interval
<1>5. s \in Surjection(1..n, S)
  BY <1>3, <1>4, FS_Injection
<1>6. Dialog!ToSet(s) = S
  BY <1>2, <1>5 DEF Dialog!ToSet, Surjection
<1>7. Len(s) = n
  BY <1>1, <1>2
<1> QED
  BY <1>6, <1>7 DEF s

\* All that is left on a cluster, each once.
WholeList(c, s) == c \in Clusters /\ Dialog!ToSet(s) = srv[c] /\ Len(s) = Cardinality(srv[c])

\* What is started: the list that was shown, or a single addon.
OneStart(a) ==
    IF a.list = Absent THEN Len(a.addons) = 1
    ELSE WholeList(a.list, a.addons) /\ a.promised = Len(a.addons)

StartKinds == {"start", "first"}

Shaped(u) ==
    /\ u = [choice |-> u.choice, listed |-> u.listed, open |-> u.open,
            starting |-> u.starting, listing |-> u.listing, loading |-> u.loading,
            error |-> u.error, active |-> u.active, gone |-> u.gone]
    /\ u.choice = [scope |-> u.choice.scope, cluster |-> u.choice.cluster,
                   selected |-> u.choice.selected]
    /\ u.choice.cluster \in Clusters \cup {Absent}
    /\ u.starting \in BOOLEAN

\* The selection of the scope "cluster" is nothing, or the list that is shown;
\* what is started was selected.
DialogInv ==
    /\ Shaped(ui)
    /\ srv \in Todo
    /\ OneAtATime(net, StartKinds, ui.starting)
    /\ ui.choice.scope = "cluster" =>
          ui.choice.selected = <<>> \/ WholeList(ui.listed, ui.choice.selected)
    /\ \A c \in Pending(net, StartKinds) : OneStart(c.arg)
    /\ \A c \in InFlight(net, "addons") : c.arg[1] \in Clusters

LEMMA InitDialog == Dialog!Init => DialogInv
<1> SUFFICES ASSUME Dialog!Init PROVE DialogInv
  OBVIOUS
<1>1. Shaped(ui) /\ srv \in Todo /\ ui.starting = FALSE /\ ui.choice.scope = "single"
  BY DEF Dialog!Init, Dialog!Choice, Shaped
<1>2. BagToSet(net) = {Call("migrations", <<>>)}
  BY DialogCalls, SentCalls, NoCallsYet DEF Dialog!Init
<1>3. Pending(net, StartKinds) = {} /\ InFlight(net, "addons") = {}
  BY <1>2 DEF Call, Pending, InFlight, StartKinds
<1>4. OneAtATime(net, StartKinds, FALSE)
  BY <1>3 DEF OneAtATime
<1> QED
  BY <1>1, <1>3, <1>4 DEF DialogInv

LEMMA WholeLists ==
    ASSUME DialogInv, NEW c \in Clusters
    PROVE  WholeList(c, Dialog!SetToSeq(Dialog!ToMigrate(c)))
<1>1. Dialog!ToMigrate(c) = srv[c] /\ IsFiniteSet(srv[c])
  BY TodoOK, AbsentAssumption DEF Dialog!ToMigrate, DialogInv
<1> QED
  BY <1>1, ListedOnce DEF WholeList

\* Nothing is asked, or only a list; the selection is short, whole or the same.
LEMMA DialogStays ==
    ASSUME DialogInv, Shaped(ui'), UNCHANGED srv, ui'.starting = ui.starting,
           \/ net' = net
           \/ \E arg : net' = Send(net, "migrations", arg)
           \/ \E c \in Clusters : net' = Send(net, "addons", <<c>>)
           \/ ui.choice.cluster # Absent /\ net' = Send(net, "addons", <<ui.choice.cluster>>),
           ui'.choice.scope = "cluster" =>
              ui'.choice.selected = <<>> \/ (ui'.choice = ui.choice /\ ui'.listed = ui.listed)
    PROVE  DialogInv'
<1> DEFINE Lists(kind, arg) ==
      \/ kind = "migrations"
      \/ kind = "addons" /\ arg[1] \in Clusters
<1>a. net' = net \/ \E kind, arg : Lists(kind, arg) /\ net' = Send(net, kind, arg)
  <2>1. ASSUME NEW arg, net' = Send(net, "migrations", arg) PROVE <1>a!2
    <3>1. Lists("migrations", arg)
      OBVIOUS
    <3> QED
      BY <2>1, <3>1
  <2>2. ASSUME NEW c \in Clusters, net' = Send(net, "addons", <<c>>) PROVE <1>a!2
    <3>1. Lists("addons", <<c>>)
      OBVIOUS
    <3> HIDE DEF Lists
    <3> QED
      BY <2>2, <3>1
  <2> QED
    BY <2>1, <2>2 DEF DialogInv, Shaped
<1>1. OneAtATime(net', StartKinds, ui'.starting)
  <2>1. OneAtATime(net, StartKinds, ui.starting) /\ ui.starting \in BOOLEAN
    BY DEF DialogInv, Shaped
  <2>2. ASSUME NEW kind, NEW arg, Lists(kind, arg), net' = Send(net, kind, arg)
        PROVE  OneAtATime(net', StartKinds, ui.starting)
    <3>1. kind \notin StartKinds
      BY <2>2 DEF StartKinds
    <3> QED
      BY <2>1, <2>2, <3>1, AnotherIsSent
  <2> QED
    BY <1>a, <2>1, <2>2
<1>2. \A c \in BagToSet(net') : c \in BagToSet(net) \/ c.kind = "migrations"
          \/ (c.kind = "addons" /\ c.arg[1] \in Clusters)
  BY <1>a, SentCalls DEF Call
<1>3. ui'.choice.scope = "cluster" =>
         ui'.choice.selected = <<>> \/ WholeList(ui'.listed, ui'.choice.selected)
  BY DEF DialogInv
<1>4. /\ \A c \in Pending(net', StartKinds) : OneStart(c.arg)
      /\ \A c \in InFlight(net', "addons") : c.arg[1] \in Clusters
  BY <1>2 DEF DialogInv, Pending, InFlight, StartKinds
<1> QED
  BY <1>1, <1>3, <1>4 DEF DialogInv, OneStart, WholeList

LEMMA StartKeeps == DialogInv /\ Dialog!Start => DialogInv'
<1> SUFFICES ASSUME DialogInv, Dialog!Start PROVE DialogInv'
  OBVIOUS
<1> DEFINE all == ui.choice.scope = "cluster"
           arg == [cluster |-> ui.choice.cluster, addons |-> Dialog!Started(ui.choice),
                   promised |-> Dialog!Promised, list |-> IF all THEN ui.listed ELSE Absent]
<1>1. /\ net' = Send(net, "start", arg) /\ ~ui.starting /\ UNCHANGED srv
      /\ ui.choice.selected # <<>>
  BY DialogCalls DEF Dialog!Start
<1>2. Shaped(ui') /\ ui'.starting = TRUE /\ ui'.choice = ui.choice /\ ui'.listed = ui.listed
  BY DEF Dialog!Start, DialogInv, Shaped
<1>3. OneStart(arg)
  <2>1. CASE all
    <3>1. WholeList(ui.listed, ui.choice.selected)
      BY <1>1, <2>1 DEF DialogInv
    <3>2. arg.list = ui.listed /\ arg.addons = ui.choice.selected
      BY <2>1 DEF Dialog!Started
    <3>3. Dialog!ToMigrate(ui.listed) = srv[ui.listed] /\ ui.listed # Absent
      BY <3>1, AbsentAssumption DEF WholeList, Dialog!ToMigrate
    <3>4. arg.promised = Cardinality(srv[ui.listed])
      BY <2>1, <3>3 DEF Dialog!Promised, Dialog!Cardinality, Cardinality
    <3> HIDE DEF arg
    <3> QED
      BY <3>1, <3>2, <3>3, <3>4 DEF OneStart, WholeList
  <2>2. CASE ~all
    <3>1. arg.list = Absent /\ arg.addons = <<Head(ui.choice.selected)>>
      BY <2>2 DEF Dialog!Started
    <3> HIDE DEF arg
    <3> QED
      BY <3>1 DEF OneStart
  <2> QED
    BY <2>1, <2>2
<1> HIDE DEF arg
<1>4. OneAtATime(net', StartKinds, TRUE)
  <2>1. "start" \in StartKinds /\ OneAtATime(net, StartKinds, FALSE)
    BY <1>1 DEF DialogInv, Shaped, StartKinds
  <2> QED
    BY <1>1, <2>1, OneIsSent
<1>5. \A c \in BagToSet(net') : c \in BagToSet(net) \/ c = Call("start", arg)
  BY <1>1, SentCalls
<1>6. /\ \A c \in Pending(net', StartKinds) : OneStart(c.arg)
      /\ \A c \in InFlight(net', "addons") : c.arg[1] \in Clusters
  BY <1>1, <1>3, <1>5 DEF DialogInv, Pending, InFlight, Call
<1> QED
  BY <1>1, <1>2, <1>4, <1>6 DEF DialogInv, OneStart, WholeList

LEMMA ListAddonsDoes ==
    ASSUME NEW u, Shaped(u), NEW cl \in Clusters \cup {Absent}, Dialog!ListAddons(u, cl)
    PROVE  /\ Shaped(ui') /\ ui'.starting = u.starting /\ ui'.choice.selected = <<>>
           /\ UNCHANGED srv
           /\ net' = net \/ net' = Send(net, "addons", <<cl>>)
<1> DEFINE v == [u EXCEPT !.choice.cluster = cl, !.choice.selected = <<>>, !.listed = Absent]
<1> DEFINE c1 == [scope |-> u.choice.scope, cluster |-> cl, selected |-> u.choice.selected]
<1> DEFINE c2 == [scope |-> u.choice.scope, cluster |-> cl, selected |-> <<>>]
<1> DEFINE Of(c, l) == [choice |-> c, listed |-> l, open |-> u.open, starting |-> u.starting,
                        listing |-> u.listing, loading |-> u.loading, error |-> u.error,
                        active |-> u.active, gone |-> u.gone]
<1>1. v = Of(c2, Absent)
  <2>1. [u.choice EXCEPT !.cluster = cl] = c1
    BY DEF Shaped
  <2>2. [u EXCEPT !.choice = c1] = Of(c1, u.listed)
    BY DEF Shaped
  <2>3. [c1 EXCEPT !.selected = <<>>] = c2
    OBVIOUS
  <2>4. [Of(c1, u.listed) EXCEPT !.choice = c2] = Of(c2, u.listed)
    OBVIOUS
  <2>5. [Of(c2, u.listed) EXCEPT !.listed = Absent] = Of(c2, Absent)
    OBVIOUS
  <2>6. Of(c1, u.listed).choice = c1
    OBVIOUS
  <2> HIDE DEF c1, c2, Of
  <2> QED
    BY <2>1, <2>2, <2>3, <2>4, <2>5, <2>6, Zenon
<1>2. Shaped(v) /\ v.starting = u.starting /\ v.choice.selected = <<>>
  BY <1>1 DEF Shaped
<1>3. /\ ui' = v \/ ui' = [v EXCEPT !.listing = TRUE]
      /\ net' = net \/ net' = Send(net, "addons", <<cl>>)
      /\ UNCHANGED srv
  BY DialogCalls DEF Dialog!ListAddons, Dialog!Set
<1> HIDE DEF v
<1>4. CASE ui' = v
  BY <1>2, <1>3, <1>4
<1>5. CASE ui' = [v EXCEPT !.listing = TRUE]
  <2>1. ui' = [choice |-> v.choice, listed |-> v.listed, open |-> v.open,
               starting |-> v.starting, listing |-> TRUE, loading |-> v.loading,
               error |-> v.error, active |-> v.active, gone |-> v.gone]
    BY <1>2, <1>5 DEF Shaped
  <2> QED
    BY <1>2, <1>3, <2>1 DEF Shaped
<1> QED
  BY <1>3, <1>4, <1>5

LEMMA UserDialog == DialogInv /\ Dialog!User => DialogInv'
<1> SUFFICES ASSUME DialogInv, Dialog!User PROVE DialogInv'
  OBVIOUS
<1>1. CASE Dialog!Refetch
  <2>1. /\ Shaped(ui') /\ ui'.starting = ui.starting /\ ui'.choice = ui.choice
        /\ ui'.listed = ui.listed
        /\ UNCHANGED srv /\ net' = Send(net, "migrations", <<>>)
    BY <1>1, DialogCalls DEF Dialog!Refetch, DialogInv, Shaped
  <2> QED
    BY <2>1, DialogStays
<1>2. CASE Dialog!OpenDialog \/ Dialog!CloseDialog
  <2>1. /\ Shaped(ui') /\ ui'.starting = ui.starting /\ ui'.choice = ui.choice
        /\ ui'.listed = ui.listed
        /\ UNCHANGED <<srv, net>>
    BY <1>2 DEF Dialog!OpenDialog, Dialog!CloseDialog, Dialog!Set, DialogInv, Shaped
  <2> QED
    BY <2>1, DialogStays
<1>3. ASSUME NEW c \in Clusters, Dialog!ChangeCluster(c) PROVE DialogInv'
  <2>1. /\ Shaped(ui') /\ ui'.starting = ui.starting /\ ui'.choice.selected = <<>>
        /\ UNCHANGED srv /\ (net' = net \/ net' = Send(net, "addons", <<c>>))
    BY <1>3, ListAddonsDoes DEF Dialog!ChangeCluster, DialogInv, Shaped
  <2> QED
    BY <2>1, DialogStays
<1>4. ASSUME NEW s \in Dialog!Scopes, Dialog!ChangeScope(s) PROVE DialogInv'
  <2> DEFINE u == [ui EXCEPT !.choice.scope = s, !.choice.selected = <<>>]
  <2>1. u = [choice |-> [scope |-> s, cluster |-> ui.choice.cluster, selected |-> <<>>],
             listed |-> ui.listed, open |-> ui.open, starting |-> ui.starting,
             listing |-> ui.listing, loading |-> ui.loading, error |-> ui.error,
             active |-> ui.active, gone |-> ui.gone]
    <3> DEFINE c1 == [scope |-> s, cluster |-> ui.choice.cluster,
                      selected |-> ui.choice.selected]
    <3> DEFINE c2 == [scope |-> s, cluster |-> ui.choice.cluster, selected |-> <<>>]
    <3> DEFINE Of(c) == [choice |-> c, listed |-> ui.listed, open |-> ui.open,
                         starting |-> ui.starting, listing |-> ui.listing,
                         loading |-> ui.loading, error |-> ui.error,
                         active |-> ui.active, gone |-> ui.gone]
    <3>1. [ui.choice EXCEPT !.scope = s] = c1
      BY DEF DialogInv, Shaped
    <3>2. [ui EXCEPT !.choice = c1] = Of(c1)
      BY DEF DialogInv, Shaped
    <3>3. [c1 EXCEPT !.selected = <<>>] = c2 /\ Of(c1).choice = c1
      OBVIOUS
    <3>4. [Of(c1) EXCEPT !.choice = c2] = Of(c2)
      OBVIOUS
    <3>5. u = Of(c2)
      <4> HIDE DEF c1, c2, Of
      <4> QED
        BY <3>1, <3>2, <3>3, <3>4, Zenon
    <3> QED
      BY <3>5
  <2>2. Shaped(u) /\ u.starting = ui.starting /\ u.choice.selected = <<>>
        /\ u.choice.cluster = ui.choice.cluster
    BY <2>1 DEF DialogInv, Shaped
  <2>3. \/ Dialog!Set(u)
        \/ ui.choice.cluster # Absent /\ Dialog!ListAddons(u, ui.choice.cluster)
    BY <1>4, <2>2 DEF Dialog!ChangeScope
  <2> HIDE DEF u
  <2>4. CASE Dialog!Set(u)
    BY <2>2, <2>4, DialogStays DEF Dialog!Set, Shaped
  <2>5. CASE ui.choice.cluster # Absent /\ Dialog!ListAddons(u, ui.choice.cluster)
    <3>1. ui.choice.cluster \in Clusters \cup {Absent}
      BY DEF DialogInv, Shaped
    <3>2. /\ Shaped(ui') /\ ui'.starting = ui.starting /\ ui'.choice.selected = <<>>
          /\ UNCHANGED srv
          /\ net' = net \/ net' = Send(net, "addons", <<ui.choice.cluster>>)
      BY <2>2, <2>5, <3>1, ListAddonsDoes DEF Shaped
    <3> QED
      BY <2>5, <3>2, DialogStays
  <2> QED
    BY <2>3, <2>4, <2>5
<1>5. ASSUME NEW a, Dialog!ChooseAddon(a) PROVE DialogInv'
  <2>1. /\ Shaped(ui') /\ ui'.starting = ui.starting /\ ui'.choice.scope # "cluster"
        /\ UNCHANGED <<srv, net>>
    BY <1>5 DEF Dialog!ChooseAddon, Dialog!Set, DialogInv, Shaped
  <2> QED
    BY <2>1, DialogStays
<1> QED
  BY <1>1, <1>2, <1>3, <1>4, <1>5, StartKeeps DEF Dialog!User

\* The answer to a list.
LEMMA DialogGot ==
    ASSUME DialogInv, Shaped(ui'), NEW c \in BagToSet(net), c.kind \notin StartKinds,
           net' = Settled(net, c), UNCHANGED srv, ui'.starting = ui.starting,
           ui'.choice.scope = "cluster" =>
              ui'.choice.selected = <<>> \/ WholeList(ui'.listed, ui'.choice.selected)
    PROVE  DialogInv'
<1>1. OneAtATime(net', StartKinds, ui'.starting)
  BY AnotherSettles DEF DialogInv, Shaped
<1>2. BagToSet(net') \subseteq BagToSet(net)
  BY SettledCalls
<1> QED
  BY <1>1, <1>2 DEF DialogInv, OneStart, WholeList, Pending, InFlight

LEMMA ListAnswers ==
    ASSUME DialogInv,
           NEW c \in BagToSet(net),
           \/ c.kind = "migrations" /\ (Dialog!ShowMigrations(c) \/ Dialog!ShowError(c))
           \/ c.kind = "addons" /\ (Dialog!ShowAddons(c) \/ Dialog!NoAddons(c))
    PROVE  DialogInv'
<1>1. c.kind \notin StartKinds
  BY DEF StartKinds
<1>2. CASE \/ Dialog!ShowMigrations(c) \/ Dialog!ShowError(c) \/ Dialog!NoAddons(c)
  <2>1. /\ Shaped(ui') /\ ui'.starting = ui.starting /\ ui'.choice = ui.choice
        /\ ui'.listed = ui.listed /\ UNCHANGED srv /\ net' = Settled(net, c)
    BY <1>2, DialogCalls DEF Dialog!ShowMigrations, Dialog!ShowError, Dialog!NoAddons, Dialog!Got,
       DialogInv, Shaped
  <2>2. ui'.choice.scope = "cluster" =>
           ui'.choice.selected = <<>> \/ WholeList(ui'.listed, ui'.choice.selected)
    BY <2>1 DEF DialogInv
  <2> QED
    BY <1>1, <2>1, <2>2, DialogGot
<1>3. CASE c.kind = "addons" /\ Dialog!ShowAddons(c)
  <2> DEFINE s == Dialog!SetToSeq(Dialog!ToMigrate(c.arg[1]))
  <2>1. WholeList(c.arg[1], s)
    BY <1>3, WholeLists DEF DialogInv, InFlight
  <2>2. /\ Shaped(ui') /\ ui'.starting = ui.starting /\ ui'.choice.selected = s
        /\ ui'.listed = c.arg[1]
        /\ UNCHANGED srv /\ net' = Settled(net, c)
    BY <1>3, DialogCalls DEF Dialog!ShowAddons, Dialog!Got, DialogInv, Shaped
  <2> QED
    BY <1>1, <2>1, <2>2, DialogGot
<1> QED
  BY <1>2, <1>3

LEMMA StartAnswers ==
    ASSUME DialogInv, NEW c \in Pending(net, StartKinds),
           Dialog!BatchStarted(c) \/ Dialog!Opened(c) \/ Dialog!StartFailed(c)
    PROVE  DialogInv'
<1>1. c \in BagToSet(net) /\ c.kind \in StartKinds
  BY DEF Pending
<1>2. ui.starting /\ OneAtATime(Settled(net, c), StartKinds, FALSE)
  BY <1>1, OneSettles DEF DialogInv, Shaped
<1>3. BagToSet(Settled(net, c)) \subseteq BagToSet(net)
  BY SettledCalls
<1>4. CASE Dialog!BatchStarted(c)
  <2>1. net' = Send(Settled(net, c), "first", c.arg) /\ UNCHANGED <<ui, srv>>
    BY <1>4, DialogCalls DEF Dialog!BatchStarted
  <2>2. OneAtATime(net', StartKinds, TRUE)
    BY <1>2, <2>1, OneIsSent DEF StartKinds
  <2>3. \A d \in BagToSet(net') : d \in BagToSet(net) \/ d = Call("first", c.arg)
    BY <1>3, <2>1, SentCalls
  <2>4. /\ \A d \in Pending(net', StartKinds) : OneStart(d.arg)
        /\ \A d \in InFlight(net', "addons") : d.arg[1] \in Clusters
    BY <2>3 DEF DialogInv, Pending, InFlight, Call
  <2> QED
    BY <1>2, <2>1, <2>2, <2>4 DEF DialogInv, Shaped, OneStart, WholeList
<1>5. CASE Dialog!Opened(c)
  <2>1. /\ net' = NoCalls /\ UNCHANGED srv /\ Shaped(ui')
        /\ ui'.starting = FALSE /\ ui'.choice.scope = "single"
    BY <1>5, DialogCalls DEF Dialog!Opened, Dialog!Choice, DialogInv, Shaped
  <2>2. Pending(net', StartKinds) = {} /\ InFlight(net', "addons") = {}
    BY <2>1, NoCallsYet DEF Pending, InFlight
  <2>3. OneAtATime(net', StartKinds, FALSE)
    BY <2>2 DEF OneAtATime
  <2> QED
    BY <2>1, <2>2, <2>3 DEF DialogInv
<1>6. CASE Dialog!StartFailed(c)
  <2>1. /\ net' = Settled(net, c) /\ UNCHANGED srv /\ Shaped(ui')
        /\ ui'.starting = FALSE /\ ui'.choice = ui.choice
        /\ ui'.listed = ui.listed
    BY <1>6, DialogCalls DEF Dialog!StartFailed, Dialog!Got, DialogInv, Shaped
  <2> QED
    BY <1>2, <1>3, <2>1 DEF DialogInv, OneStart, WholeList, Pending, InFlight
<1> QED
  BY <1>4, <1>5, <1>6

DialogKept == tab = "dialog" => DialogInv

LEMMA DialogKeeps == ASSUME DialogKept, [Next]_vars PROVE DialogKept'
<1> SUFFICES ASSUME tab' = "dialog" PROVE DialogInv'
  BY DEF DialogKept
<1>1. tab = "dialog" /\ DialogInv
  BY TabStays DEF DialogKept
<1>2. CASE Dialog!Next
  <2>1. CASE Dialog!User
    BY <1>1, <2>1, UserDialog
  <2>2. ASSUME NEW s, Dialog!Answers(s) PROVE DialogInv'
    <3>1. Dialog!Starts = Pending(net, StartKinds)
      BY DialogCalls DEF Dialog!Starts, InFlight, Pending, StartKinds
    <3> QED
      BY <1>1, <2>2, <3>1, DialogCalls, ListAnswers, StartAnswers DEF Dialog!Answers, InFlight
  <2> QED
    BY <1>2, <2>1, <2>2 DEF Dialog!Next, Dialog!Deliver
<1>3. CASE UNCHANGED vars
  BY <1>1, <1>3 DEF vars, DialogInv, Shaped, OneStart, WholeList
<1> QED
  BY <1>1, <1>2, <1>3 DEF Next, Step

(* One start is under way at most, and that of a whole cluster is all of    *)
(* the list shown at that moment, as many addons as the button says,        *)
(* whatever is chosen, closed and opened while answers are due; any other   *)
(* start is a single addon (NewMigrationDialog.tsx).                        *)
THEOREM OneListIsStarted == Spec => []StartsOneList
<1>1. Init => DialogKept
  BY InitDialog DEF Init, DialogKept
<1>2. DialogKept => StartsOneList
  <2> SUFFICES ASSUME DialogInv PROVE Dialog!StartsOneList
    BY DEF DialogKept, StartsOneList
  <2>1. Dialog!Starts = Pending(net, StartKinds)
    BY DialogCalls DEF Dialog!Starts, InFlight, Pending, StartKinds
  <2>2. Cardinality(Pending(net, StartKinds)) = IF ui.starting THEN 1 ELSE 0
    BY OneIsCounted DEF DialogInv, Shaped
  <2>3. \A S : Dialog!Cardinality(S) = Cardinality(S)
    BY DEF Dialog!Cardinality, Cardinality
  <2> QED
    BY <2>1, <2>2, <2>3 DEF DialogInv, OneStart, WholeList, Dialog!StartsOneList
<1> QED
  BY <1>1, <1>2, DialogKeeps, PTL DEF Spec

----------------------------------------------------------------------------
(* The page of one migration.  A page that asks no more is right, or        *)
(* something in flight will make it ask, unless the last it heard was an    *)
(* answer that was overtaken, or it was told nothing since.                 *)

LEMMA MigrationCalls ==
    /\ Migration!NoCalls = NoCalls
    /\ \A b : Migration!BagToSet(b) = BagToSet(b)
    /\ \A b, kind, arg : Migration!Send(b, kind, arg) = Send(b, kind, arg)
    /\ \A b, c : Migration!Settled(b, c) = Settled(b, c)
    /\ \A b, c, ans : Migration!Answered(b, c, ans) = Answered(b, c, ans)
    /\ \A b, c : Migration!Refused(b, c) = Refused(b, c)
    /\ \A b, kind : Migration!InFlight(b, kind) = InFlight(b, kind)
BY DEF Migration!NoCalls, NoCalls, Migration!EmptyBag, EmptyBag, Migration!SetToBag, SetToBag,
   Migration!Send, Send, Migration!Call, Call, Migration!Settled, Settled, Migration!Moved, Moved,
   Migration!Answered, Answered, Migration!Refused, Refused, Migration!InFlight, InFlight,
   Migration!BagToSet, BagToSet, Migration!(+), (+), Migration!(-), (-)

\* Each call in flight is there a number of times.
Counted(b) == \A c \in BagToSet(b) : b[c] \in Nat \ {0}

LEMMA OneMoreCounted ==
    ASSUME NEW b, NEW c, Counted(b)
    PROVE  Counted(b (+) SetToBag({c}))
<1> DEFINE s == b (+) SetToBag({c})
<1>1. DOMAIN s = DOMAIN b \cup {c}
  BY DEF SetToBag, (+)
<1>2. ASSUME NEW d \in DOMAIN s
      PROVE  s[d] = (IF d \in DOMAIN b THEN b[d] ELSE 0) + (IF d = c THEN 1 ELSE 0)
  BY <1>2 DEF SetToBag, (+)
<1> HIDE DEF s
<1>3. ASSUME NEW d \in DOMAIN s PROVE s[d] \in Nat \ {0}
  BY <1>1, <1>2, <1>3 DEF Counted, BagToSet
<1> QED
  BY <1>3 DEF Counted, BagToSet, s

LEMMA OneLessCounted ==
    ASSUME NEW b, NEW c, Counted(b)
    PROVE  /\ Counted(Settled(b, c))
           /\ \A d \in BagToSet(b) : d # c => d \in BagToSet(Settled(b, c))
<1> DEFINE left(d) == IF d = c THEN b[d] - 1 ELSE b[d]
           s == Settled(b, c)
<1>1. DOMAIN s = {d \in DOMAIN b : left(d) > 0}
  BY DEF Settled, SetToBag, (-)
<1>2. \A d \in DOMAIN s : s[d] = left(d)
  BY DEF Settled, SetToBag, (-)
<1> HIDE DEF s
<1>3. Counted(s)
  BY <1>1, <1>2 DEF Counted, BagToSet
<1>4. \A d \in BagToSet(b) : d # c => d \in BagToSet(s)
  BY <1>1 DEF Counted, BagToSet
<1> QED
  BY <1>3, <1>4 DEF s

LEMMA SentCounted ==
    ASSUME NEW b, NEW kind, NEW arg, Counted(b)
    PROVE  Counted(Send(b, kind, arg))
BY OneMoreCounted DEF Send

LEMMA MovedCounted ==
    ASSUME NEW b, NEW c, NEW d, Counted(b)
    PROVE  Counted(Moved(b, c, d))
BY OneMoreCounted, OneLessCounted DEF Moved

LEMMA NoneCounted == Counted(NoCalls)
BY NoCallsYet DEF Counted

LEMMA RefusedCalls ==
    ASSUME NEW b, NEW c
    PROVE  BagToSet(Refused(b, c)) = BagToSet(Settled(b, c)) \cup {[c EXCEPT !.st = "failed"]}
BY DEF Refused, Moved, BagToSet, SetToBag, (+)

QuietFields == {"m", "loading", "error", "polling", "merging", "gone"}

\* A call that makes the page ask again, or that it will know to have missed.
Telling(c) == \/ c.kind = "get"
              \/ c.kind # "get" /\ c.st = "ok"
              \/ c.kind = "continue" /\ c.st = "failed"

ToldOf(b) == \E c \in BagToSet(b) : Telling(c)

CallsOK(b) == /\ Counted(b)
              /\ \A c \in BagToSet(b) : Has(c, {"kind", "arg", "st", "ans"})

\* The page asks no more, and nothing was missed.
Silent(u, s) == u.m # Absent /\ ~u.polling /\ ~u.error /\ ~u.gone /\ ~s.missed

ServedOK(s) == /\ Has(s, {"m", "driven", "missed"})
               /\ s.driven => s.m.status = "running"

QuietUI(u) == /\ Has(u, QuietFields)
              /\ u.m # Absent /\ ~u.polling => u.m.status \in Migration!Final

QuietInv == /\ QuietUI(ui) /\ ServedOK(srv) /\ CallsOK(net)
            /\ Silent(ui, srv) => ui.m = srv.m \/ ToldOf(net)

LEMMA InitQuiet == Migration!Init => QuietInv
<1> SUFFICES ASSUME Migration!Init PROVE QuietInv
  OBVIOUS
<1>1. QuietUI(ui) /\ ui.m = Absent
  BY DEF Migration!Init, Migration!Mounted, QuietUI, Has, QuietFields
<1>2. ServedOK(srv)
  <2>1. PICK s : srv = [m |-> Migration!Migration(s, 1), driven |-> s = "running", missed |-> FALSE]
    BY DEF Migration!Init
  <2> QED
    BY <2>1 DEF Migration!Migration, ServedOK, Has
<1>3. net = Send(NoCalls, "get", <<>>)
  BY MigrationCalls DEF Migration!Init
<1>4. CallsOK(net)
  BY <1>3, SentCalls, NoCallsYet, NoneCounted, SentCounted DEF CallsOK, Call, Has
<1> QED
  BY <1>1, <1>2, <1>4 DEF QuietInv, Silent

\* A request is sent.
LEMMA AskedQuiet ==
    ASSUME NEW b, NEW kind, NEW arg, CallsOK(b)
    PROVE  /\ CallsOK(Send(b, kind, arg))
           /\ kind = "get" \/ ToldOf(b) => ToldOf(Send(b, kind, arg))
<1>1. BagToSet(Send(b, kind, arg)) = BagToSet(b) \cup {Call(kind, arg)}
  BY SentCalls
<1>2. Has(Call(kind, arg), {"kind", "arg", "st", "ans"}) /\ Call(kind, arg).kind = kind
  BY DEF Has, Call
<1> QED
  BY <1>1, <1>2, SentCounted DEF CallsOK, ToldOf, Telling

LEMMA UserQuiet ==
    ASSUME QuietInv, Migration!User \/ Migration!Poll
    PROVE  QuietInv'
<1>1. PICK kind : /\ net' = Send(net, kind, <<>>) /\ UNCHANGED srv
                  /\ \/ UNCHANGED ui
                     \/ kind = "get" /\ ui' = [ui EXCEPT !.error = FALSE]
                     \/ ui' = [ui EXCEPT !.merging = TRUE]
  <2>1. CASE Migration!Poll \/ Migration!Refetch
    BY <2>1, MigrationCalls DEF Migration!Poll, Migration!Refetch, Migration!Asks
  <2>2. CASE \/ Migration!handleContinue \/ Migration!handleRetry \/ Migration!handlePause
             \/ Migration!handleRollback \/ Migration!handleDelete
    BY <2>2, MigrationCalls DEF Migration!handleContinue, Migration!handleRetry,
       Migration!handlePause, Migration!handleRollback, Migration!handleDelete, Migration!Asks
  <2>3. CASE Migration!handleMergePR
    BY <2>3, MigrationCalls DEF Migration!handleMergePR, Migration!Asks
  <2> QED
    BY <2>1, <2>2, <2>3 DEF Migration!User
<1>2. QuietUI(ui) /\ ServedOK(srv) /\ CallsOK(net)
  BY DEF QuietInv
<1>3. /\ QuietUI(ui') /\ ui'.m = ui.m /\ ui'.polling = ui.polling /\ ui'.gone = ui.gone
      /\ kind = "get" \/ ui'.error = ui.error
  BY <1>1, <1>2 DEF QuietUI, Has, QuietFields
<1>4. CallsOK(net') /\ (kind = "get" \/ ToldOf(net) => ToldOf(net'))
  BY <1>1, <1>2, AskedQuiet
<1> QED
  BY <1>1, <1>2, <1>3, <1>4 DEF QuietInv, Silent

LEMMA BecomesQuiet ==
    ASSUME NEW status, NEW step, NEW driven, ServedOK(srv), driven => status = "running",
           Migration!Becomes(Migration!Migration(status, step), driven)
    PROVE  ServedOK(srv') /\ srv'.missed = srv.missed
BY DEF Migration!Becomes, Migration!Migration, ServedOK, Has

\* What the executor does, it does to a migration that the page still polls.
LEMMA RunsQuiet == ASSUME QuietInv, Migration!Runs PROVE QuietInv'
<1>1. ServedOK(srv) /\ srv.driven /\ UNCHANGED <<ui, net>>
  BY DEF QuietInv, Migration!Runs
<1>2. ServedOK(srv') /\ srv'.missed = srv.missed
  BY <1>1, BecomesQuiet DEF Migration!Runs
<1>3. Silent(ui, srv) => ToldOf(net)
  <2>1. "running" \notin Migration!Final
    BY DEF Migration!Final
  <2> QED
    BY <1>1, <2>1 DEF QuietInv, QuietUI, ServedOK, Silent
<1> QED
  BY <1>1, <1>2, <1>3 DEF QuietInv, Silent

LEMMA EffectQuiet ==
    ASSUME NEW kind, ServedOK(srv), Migration!Effect(kind)
    PROVE  ServedOK(srv') /\ srv'.missed = srv.missed
<1>1. CASE UNCHANGED srv
  BY <1>1
<1>2. CASE Migration!Continue
  BY <1>2, BecomesQuiet DEF Migration!Continue
<1>3. CASE Migration!RetryStep \/ Migration!Pause \/ Migration!RollBack \/ Migration!MergePR
           \/ Migration!Delete
  BY <1>3, BecomesQuiet DEF Migration!RetryStep, Migration!Pause, Migration!RollBack,
     Migration!MergePR, Migration!Delete
<1> QED
  BY <1>1, <1>2, <1>3 DEF Migration!Effect

LEMMA HandleQuiet ==
    ASSUME QuietInv, NEW c \in BagToSet(net), Migration!Handle(c)
    PROVE  QuietInv'
<1> DEFINE ans == IF c.kind = "get" THEN <<srv.m>> ELSE <<>>
<1>1. net' = Answered(net, c, ans) /\ UNCHANGED ui /\ Migration!Effect(c.kind)
  BY MigrationCalls DEF Migration!Handle
<1> HIDE DEF ans
<1>2. Has(c, {"kind", "arg", "st", "ans"}) /\ QuietUI(ui) /\ ServedOK(srv) /\ CallsOK(net)
  BY DEF QuietInv, CallsOK
<1>3. LET d == WithAnswer(c, ans)
      IN  Has(d, {"kind", "arg", "st", "ans"}) /\ Telling(d)
  BY <1>2 DEF WithAnswer, Has, Telling
<1>4. BagToSet(net') = BagToSet(Settled(net, c)) \cup {WithAnswer(c, ans)}
  BY <1>1, AnsweredCalls
<1>5. CallsOK(net') /\ ToldOf(net')
  BY <1>1, <1>2, <1>3, <1>4, SettledCalls, MovedCounted DEF CallsOK, ToldOf, Answered
<1>6. ServedOK(srv')
  BY <1>1, <1>2, EffectQuiet
<1> QED
  BY <1>1, <1>2, <1>5, <1>6 DEF QuietInv

LEMMA SettlesQuiet ==
    ASSUME NEW b, NEW c, CallsOK(b)
    PROVE  /\ CallsOK(Settled(b, c))
           /\ ToldOf(b) /\ ~Telling(c) => ToldOf(Settled(b, c))
BY SettledCalls, OneLessCounted DEF CallsOK, ToldOf

LEMMA RefuseQuiet ==
    ASSUME QuietInv, NEW c \in BagToSet(net), Migration!Refuse(c)
    PROVE  QuietInv'
<1> DEFINE d == [c EXCEPT !.st = "failed"]
<1>1. /\ net' = Refused(net, c) /\ UNCHANGED ui /\ c.kind # "get" /\ c.st = "sent"
      /\ IF c.kind = "continue" THEN Migration!CannotContinue ELSE UNCHANGED srv
  BY MigrationCalls DEF Migration!Refuse
<1>2. Has(c, {"kind", "arg", "st", "ans"}) /\ QuietUI(ui) /\ ServedOK(srv) /\ CallsOK(net)
  BY DEF QuietInv, CallsOK
<1>3. Has(d, {"kind", "arg", "st", "ans"}) /\ (c.kind = "continue" => Telling(d))
  BY <1>2 DEF Has, Telling
<1>4. BagToSet(net') = BagToSet(Settled(net, c)) \cup {d}
  BY <1>1, RefusedCalls
<1> HIDE DEF d
<1>5. ~Telling(c)
  BY <1>1 DEF Telling
<1>6. CallsOK(net') /\ (ToldOf(net) \/ c.kind = "continue" => ToldOf(net'))
  BY <1>1, <1>2, <1>3, <1>4, <1>5, SettlesQuiet, MovedCounted DEF CallsOK, ToldOf, Refused
<1>7. ServedOK(srv')
  BY <1>1, <1>2, BecomesQuiet DEF Migration!CannotContinue
<1> QED
  BY <1>1, <1>2, <1>6, <1>7 DEF QuietInv, Silent

LEMMA ShownQuiet ==
    ASSUME QuietInv, NEW c \in BagToSet(net),
           \/ Migration!ShowMigration(c) \/ Migration!ShowError(c)
           \/ Migration!ShowDone(c) \/ Migration!ShowFailed(c)
    PROVE  QuietInv'
<1> USE MigrationCalls
<1>1. QuietUI(ui) /\ ServedOK(srv) /\ CallsOK(net) /\ CallsOK(Settled(net, c))
  BY SettlesQuiet DEF QuietInv
<1>2. CASE Migration!ShowMigration(c)
  <2> DEFINE m == c.ans[1]
  <2>1. /\ ui' = [ui EXCEPT !.m = m, !.loading = FALSE, !.polling = m.status \notin Migration!Final]
        /\ srv' = [srv EXCEPT !.missed = m.status \in Migration!Final /\ m # srv.m]
        /\ net' = Settled(net, c)
    BY <1>2 DEF Migration!ShowMigration
  <2> HIDE DEF m
  <2>2. QuietUI(ui') /\ ui'.m = m /\ ui'.polling = (m.status \notin Migration!Final)
    BY <1>1, <2>1 DEF QuietUI, Has, QuietFields
  <2>3. /\ ServedOK(srv') /\ srv'.m = srv.m
        /\ srv'.missed = (m.status \in Migration!Final /\ m # srv.m)
    BY <1>1, <2>1 DEF ServedOK, Has
  <2> QED
    BY <1>1, <2>1, <2>2, <2>3 DEF QuietInv, Silent
<1>3. CASE Migration!ShowError(c)
  <2>1. QuietUI(ui') /\ ui'.error
    BY <1>1, <1>3 DEF Migration!ShowError, QuietUI, Has, QuietFields
  <2> QED
    BY <1>1, <1>3, <2>1 DEF Migration!ShowError, QuietInv, Silent
<1>4. CASE Migration!ShowDone(c)
  <2>1. QuietUI(ui')
    BY <1>1, <1>4 DEF Migration!ShowDone, Migration!Mounted, QuietUI, Has, QuietFields
  <2>2. CASE c.kind = "delete"
    <3>1. ui'.gone /\ net' = NoCalls
      BY <1>4, <2>2 DEF Migration!ShowDone, Migration!Mounted
    <3> QED
      BY <1>1, <1>4, <2>1, <3>1, NoCallsYet, NoneCounted DEF Migration!ShowDone, QuietInv, Silent, CallsOK
  <2>3. CASE c.kind # "delete"
    <3>1. net' = Send(Settled(net, c), "get", <<>>)
      BY <1>4, <2>3 DEF Migration!ShowDone
    <3>2. CallsOK(net') /\ ToldOf(net')
      BY <1>1, <3>1, AskedQuiet
    <3> QED
      BY <1>1, <1>4, <2>1, <3>2 DEF Migration!ShowDone, QuietInv
  <2> QED
    BY <2>2, <2>3
<1>5. CASE Migration!ShowFailed(c)
  <2>1. /\ QuietUI(ui') /\ ui'.m = ui.m /\ ui'.polling = ui.polling
        /\ ui'.gone = ui.gone /\ ui'.error = ui.error
    BY <1>1, <1>5 DEF Migration!ShowFailed, QuietUI, Has, QuietFields
  <2>2. /\ ServedOK(srv') /\ srv'.m = srv.m
        /\ ~srv'.missed => ~srv.missed /\ c.st # "ok" /\ c.kind # "continue" /\ c.kind # "get"
    BY <1>1, <1>5 DEF Migration!ShowFailed, ServedOK, Has
  <2>3. ~srv'.missed => ~Telling(c)
    BY <2>2 DEF Telling
  <2>4. net' = Settled(net, c)
    BY <1>5 DEF Migration!ShowFailed
  <2> QED
    BY <1>1, <2>1, <2>2, <2>3, <2>4, SettlesQuiet DEF QuietInv, Silent
<1> QED
  BY <1>2, <1>3, <1>4, <1>5

LEMMA QuietNext == QuietInv /\ Migration!Next => QuietInv'
<1> SUFFICES ASSUME QuietInv, Migration!Next PROVE QuietInv'
  OBVIOUS
<1>1. CASE Migration!Deliver
  <2>1. PICK c \in BagToSet(net) : Migration!Answer(c)
    BY <1>1, MigrationCalls DEF Migration!Deliver, Migration!Answers, InFlight
  <2> QED
    BY <2>1, HandleQuiet, RefuseQuiet, ShownQuiet DEF Migration!Answer
<1> QED
  BY <1>1, UserQuiet, RunsQuiet DEF Migration!Next

QuietKept == tab = "migration" => QuietInv

LEMMA QuietKeeps == ASSUME QuietKept, [Next]_vars PROVE QuietKept'
<1> SUFFICES ASSUME tab' = "migration" PROVE QuietInv'
  BY DEF QuietKept
<1>1. tab = "migration" /\ QuietInv
  BY TabStays DEF QuietKept
<1>2. CASE Migration!Next
  BY <1>1, <1>2, QuietNext
<1>3. CASE UNCHANGED vars
  BY <1>1, <1>3 DEF vars, QuietInv
<1> QED
  BY <1>1, <1>2, <1>3 DEF Next, Step

(* The page of a migration that asks no more shows what the migration is:   *)
(* it stops at a status that nothing but its own operations changes, and    *)
(* asks again after each of these (MigrationDetail.tsx), unless the last    *)
(* answer it showed was overtaken, or an operation has since been reported  *)
(* failed; the next answer it shows ends that.                              *)
THEOREM QuietPageStaysRight == Spec => []QuietPageIsRight
<1>1. Init => QuietKept
  BY InitQuiet DEF Init, QuietKept
<1>2. QuietKept => QuietPageIsRight
  BY MigrationCalls, NoCallsYet
     DEF QuietKept, QuietInv, Silent, ToldOf, QuietPageIsRight, Migration!QuietPageIsRight,
         Migration!Shown
<1> QED
  BY <1>1, <1>2, QuietKeeps, PTL DEF Spec

----------------------------------------------------------------------------
(* The observability page: its overview, its question about Datadog, and    *)
(* the metrics of clusters.                                                 *)

LEMMA ObserveCalls ==
    /\ Observe!NoCalls = NoCalls
    /\ \A b : Observe!BagToSet(b) = BagToSet(b)
    /\ \A b, kind, arg : Observe!Send(b, kind, arg) = Send(b, kind, arg)
    /\ \A b, c : Observe!Settled(b, c) = Settled(b, c)
    /\ \A b, S : Observe!(+)(b, Observe!SetToBag(S)) = b (+) SetToBag(S)
    /\ \A kind, arg : Observe!Call(kind, arg) = Call(kind, arg)
    /\ \A b, kind : Observe!InFlight(b, kind) = InFlight(b, kind)
BY DEF Observe!NoCalls, NoCalls, Observe!EmptyBag, EmptyBag, Observe!SetToBag, SetToBag, Observe!Send, Send,
   Observe!Call, Call, Observe!Settled, Settled, Observe!InFlight, InFlight, Observe!BagToSet, BagToSet,
   Observe!(+), (+), Observe!(-), (-)

\* Every call in flight is there once.
Once(b) == \A c \in BagToSet(b) : b[c] = 1

LEMMA OnceSent ==
    ASSUME NEW b, Once(b), NEW S, S \cap BagToSet(b) = {}
    PROVE  Once(b (+) SetToBag(S)) /\ BagToSet(b (+) SetToBag(S)) = BagToSet(b) \cup S
<1> DEFINE s == b (+) SetToBag(S)
<1>1. BagToSet(s) = BagToSet(b) \cup S
  BY DEF BagToSet, SetToBag, (+)
<1>2. \A c \in BagToSet(b) : s[c] = 1
  BY DEF Once, BagToSet, SetToBag, (+)
<1>3. \A c \in S : s[c] = 1
  BY DEF BagToSet, SetToBag, (+)
<1> HIDE DEF s
<1> QED
  BY <1>1, <1>2, <1>3 DEF Once, s

LEMMA OnceSettled ==
    ASSUME NEW b, Once(b), NEW c \in BagToSet(b)
    PROVE  Once(Settled(b, c)) /\ BagToSet(Settled(b, c)) = BagToSet(b) \ {c}
<1> DEFINE s == Settled(b, c)
           left(d) == IF d = c THEN b[d] - 1 ELSE b[d]
<1>1. DOMAIN s = {d \in DOMAIN b : left(d) > 0}
  BY DEF Settled, SetToBag, (-)
<1>2. \A d \in DOMAIN s : s[d] = left(d)
  BY DEF Settled, SetToBag, (-)
<1> HIDE DEF s
<1>3. BagToSet(s) = BagToSet(b) \ {c}
  BY <1>1 DEF Once, BagToSet
<1>4. Once(s)
  BY <1>2, <1>3 DEF Once, BagToSet
<1> QED
  BY <1>3, <1>4 DEF s

\* What the page has in flight: its overview, what it asks about Datadog once
\* it has applications to show, and the metrics it has a spinner for.
Asking(clusters) == {Call("metrics", <<c>>) : c \in clusters}

Waiting(u, s) == ~u.loading /\ ~u.error /\ s.apps # {} /\ u.section.dd = "unknown"

InTheAir(u, s) == Asking(u.section.loading)
                     \cup {c \in {Call("overview", <<>>)} : u.loading}
                     \cup {c \in {Call("dd-status", <<>>)} : Waiting(u, s)}

LEMMA KindsOf ==
    /\ \A S : \A c \in Asking(S) : c.kind = "metrics" /\ c = Call("metrics", c.arg)
                                   /\ c.arg = <<c.arg[1]>> /\ c.arg[1] \in S
    /\ \A S : Asking(S) = {} <=> S = {}
    /\ \A x : Call("metrics", <<x>>).arg[1] = x
    /\ Call("overview", <<>>).kind = "overview" /\ Call("dd-status", <<>>).kind = "dd-status"
<1>1. \A S : Asking(S) = {} <=> S = {}
  BY DEF Asking
<1>2. \A x : Call("metrics", <<x>>).kind = "metrics" /\ Call("metrics", <<x>>).arg = <<x>>
  BY DEF Call
<1>3. \A x : <<x>>[1] = x
  OBVIOUS
<1>4. ASSUME NEW S, NEW c \in Asking(S)
      PROVE  c.kind = "metrics" /\ c = Call("metrics", c.arg)
             /\ c.arg = <<c.arg[1]>> /\ c.arg[1] \in S
  <2>1. PICK x \in S : c = Call("metrics", <<x>>)
    BY DEF Asking
  <2>2. c.kind = "metrics" /\ c.arg = <<x>> /\ c.arg[1] = x
    BY <1>2, <1>3, <2>1
  <2> QED
    BY <2>1, <2>2
<1>5. Call("overview", <<>>).kind = "overview" /\ Call("dd-status", <<>>).kind = "dd-status"
  BY DEF Call
<1> QED
  BY <1>1, <1>2, <1>3, <1>4, <1>5

LEMMA OneMetrics ==
    ASSUME NEW x, NEW y, Call("metrics", <<x>>) = Call("metrics", <<y>>)
    PROVE  x = y
<1>1. <<x>> = <<y>>
  BY DEF Call
<1>2. <<x>>[1] = x /\ <<y>>[1] = y
  OBVIOUS
<1> QED
  BY <1>1, <1>2

SectionFields == {"dd", "groupBy", "expanded", "blind", "cache", "loading"}

ClustersIn(r, group) == {app[2] : app \in {x \in r.apps : group \in {x[1], x[2]}}}

LEMMA ClustersAre == \A group : Observe!ClustersOf(group) = ClustersIn(srv, group)
BY DEF Observe!ClustersOf, ClustersIn

SectionOK(s, r) ==
    /\ Has(s, SectionFields)
    /\ s.dd = "unknown" => s.expanded \subseteq s.blind
    /\ s.dd = "yes" => \A g \in s.expanded \ s.blind :
                          ClustersIn(r, g) \subseteq s.cache \cup s.loading

ObserveInv == /\ Has(ui, {"loading", "error", "section"})
              /\ ui.loading \in BOOLEAN /\ ui.error \in BOOLEAN
              /\ ui.error => ~ui.loading
              /\ ui.loading \/ ui.error => ui.section = Observe!Section
              /\ SectionOK(ui.section, srv)
              /\ Once(net) /\ BagToSet(net) = InTheAir(ui, srv)

LEMMA NewSection ==
    /\ \A r : SectionOK(Observe!Section, r)
    /\ Observe!Section.loading = {} /\ Observe!Section.dd = "unknown"
BY DEF SectionOK, Has, SectionFields, Observe!Section

\* What is in flight is known by its kind.
LEMMA WhatIsIt ==
    ASSUME ObserveInv, NEW c \in BagToSet(net)
    PROVE  /\ c.kind = "overview" => ui.loading /\ c = Call("overview", <<>>)
           /\ c.kind = "dd-status" => Waiting(ui, srv) /\ c = Call("dd-status", <<>>)
           /\ c.kind = "metrics" => /\ c.arg = <<c.arg[1]>> /\ c = Call("metrics", c.arg)
                                    /\ c.arg[1] \in ui.section.loading
<1>1. \/ c \in Asking(ui.section.loading)
      \/ c = Call("overview", <<>>) /\ ui.loading
      \/ c = Call("dd-status", <<>>) /\ Waiting(ui, srv)
  BY DEF ObserveInv, InTheAir
<1> QED
  BY <1>1, KindsOf

LEMMA RetryKeeps == ASSUME ObserveInv, Observe!Retry PROVE ObserveInv'
<1> DEFINE d == Call("overview", <<>>)
<1>1. /\ ui.error /\ ~ui.loading /\ ui.section = Observe!Section /\ UNCHANGED srv
      /\ ui'.loading /\ ui'.error = FALSE /\ ui'.loading \in BOOLEAN /\ ui'.section = ui.section
      /\ Has(ui', {"loading", "error", "section"})
      /\ net' = net (+) SetToBag({d})
  BY ObserveCalls DEF Observe!Retry, ObserveInv, Has, Send
<1>2. BagToSet(net) = {}
  BY <1>1, NewSection, KindsOf DEF ObserveInv, InTheAir, Waiting
<1>3. Once(net') /\ BagToSet(net') = {d}
  BY <1>1, <1>2, OnceSent DEF ObserveInv
<1>4. InTheAir(ui', srv') = {d}
  BY <1>1, NewSection, KindsOf DEF InTheAir, Waiting
<1> QED
  BY <1>1, <1>3, <1>4, NewSection DEF ObserveInv

\* A group is opened: the metrics that are missing are asked for.
LEMMA ExpandKeeps == ASSUME ObserveInv, NEW group, Observe!Expand(group) PROVE ObserveInv'
<1> DEFINE wanted == Observe!Missing(group)
           s == ui.section
<1>1. /\ ~ui.loading /\ ~ui.error /\ UNCHANGED srv
      /\ net' = net (+) SetToBag(Asking(wanted))
      /\ ui' = [ui EXCEPT !.section.expanded = @ \cup {group}, !.section.loading = @ \cup wanted,
                          !.section.blind = IF ui.section.dd = "unknown" THEN @ \cup {group} ELSE @]
  BY ObserveCalls DEF Observe!Expand, Observe!Shown, Asking
<1>2. Has(ui, {"loading", "error", "section"}) /\ Has(s, SectionFields)
  BY DEF ObserveInv, SectionOK
<1>3. /\ Has(ui', {"loading", "error", "section"}) /\ Has(ui'.section, SectionFields)
      /\ ui'.loading = ui.loading /\ ui'.error = ui.error
      /\ ui'.section.dd = s.dd /\ ui'.section.cache = s.cache
      /\ ui'.section.expanded = s.expanded \cup {group}
      /\ ui'.section.loading = s.loading \cup wanted
      /\ ui'.section.blind = IF s.dd = "unknown" THEN s.blind \cup {group} ELSE s.blind
  <2> HIDE DEF wanted
  <2> QED
    BY <1>1, <1>2 DEF Has, SectionFields
<1>4. /\ wanted \cap s.loading = {}
      /\ s.dd = "yes" => ClustersIn(srv, group) \subseteq s.cache \cup s.loading \cup wanted
  BY ClustersAre DEF Observe!Missing
<1> HIDE DEF wanted
<1>6. Asking(wanted) \cap BagToSet(net) = {}
  <2> SUFFICES ASSUME NEW c \in Asking(wanted), c \in BagToSet(net) PROVE FALSE
    OBVIOUS
  <2> QED
    BY <1>4, KindsOf, WhatIsIt
<1>7. Once(net') /\ BagToSet(net') = BagToSet(net) \cup Asking(wanted)
  BY <1>1, <1>6, OnceSent DEF ObserveInv
<1>8. InTheAir(ui', srv') = InTheAir(ui, srv) \cup Asking(wanted)
  <2>1. Asking(s.loading \cup wanted) = Asking(s.loading) \cup Asking(wanted)
    BY DEF Asking
  <2>2. Waiting(ui', srv') <=> Waiting(ui, srv)
    BY <1>1, <1>3 DEF Waiting
  <2> HIDE DEF s
  <2> QED
    BY <1>3, <2>1, <2>2 DEF InTheAir, s
<1>9. SectionOK(ui'.section, srv')
  <2>1. SectionOK(s, srv)
    BY DEF ObserveInv
  <2> HIDE DEF s
  <2>2. s.dd = "unknown" => ui'.section.expanded \subseteq ui'.section.blind
    BY <1>3, <2>1 DEF SectionOK
  <2>3. ASSUME s.dd = "yes", NEW g \in ui'.section.expanded \ ui'.section.blind
        PROVE  ClustersIn(srv, g) \subseteq ui'.section.cache \cup ui'.section.loading
    <3>1. g = group \/ g \in s.expanded \ s.blind
      BY <1>3, <2>3
    <3> QED
      BY <1>3, <1>4, <2>1, <2>3, <3>1 DEF SectionOK
  <2> QED
    BY <1>1, <1>3, <2>2, <2>3 DEF SectionOK
<1> QED
  BY <1>1, <1>3, <1>7, <1>8, <1>9 DEF ObserveInv

\* A group is closed, or all of them.
LEMMA CloseKeeps ==
    ASSUME ObserveInv, \/ \E group : Observe!Collapse(group)
                       \/ \E mode : Observe!handleGroupByChange(mode)
    PROVE  ObserveInv'
<1> DEFINE s == ui.section
<1>1. Has(ui, {"loading", "error", "section"}) /\ Has(s, SectionFields)
  BY DEF ObserveInv, SectionOK
<1>2. /\ ~ui.loading /\ ~ui.error /\ UNCHANGED <<net, srv>>
      /\ Has(ui', {"loading", "error", "section"}) /\ Has(ui'.section, SectionFields)
      /\ ui'.loading = ui.loading /\ ui'.error = ui.error
      /\ ui'.section.dd = s.dd /\ ui'.section.cache = s.cache /\ ui'.section.loading = s.loading
      /\ \/ \E group : ui'.section.expanded = s.expanded \ {group} /\ ui'.section.blind = s.blind \ {group}
         \/ ui'.section.expanded = {} /\ ui'.section.blind = {}
  <2>1. ASSUME NEW group, Observe!Collapse(group) PROVE <1>2!:
    BY <1>1, <2>1 DEF Observe!Collapse, Observe!Shown, Has, SectionFields
  <2>2. ASSUME NEW mode, Observe!handleGroupByChange(mode) PROVE <1>2!:
    BY <1>1, <2>2 DEF Observe!handleGroupByChange, Observe!Shown, Has, SectionFields
  <2> QED
    BY <2>1, <2>2
<1>4. SectionOK(ui'.section, srv')
  BY <1>2 DEF ObserveInv, SectionOK
<1>5. InTheAir(ui', srv') = InTheAir(ui, srv)
  BY <1>2 DEF InTheAir, Waiting
<1> QED
  BY <1>2, <1>4, <1>5 DEF ObserveInv

LEMMA OverviewKeeps ==
    ASSUME ObserveInv, NEW c \in InFlight(net, "overview"),
           Observe!ShowOverview(c) \/ Observe!ShowError(c)
    PROVE  ObserveInv'
<1>1. /\ c \in BagToSet(net) /\ c = Call("overview", <<>>)
      /\ ui.loading /\ ~ui.error /\ ui.section = Observe!Section
  BY WhatIsIt DEF InFlight, ObserveInv
<1>2. BagToSet(net) = {c}
  BY <1>1, NewSection, KindsOf DEF ObserveInv, InTheAir, Waiting
<1>3. Once(Settled(net, c)) /\ BagToSet(Settled(net, c)) = {}
  BY <1>1, <1>2, OnceSettled DEF ObserveInv
<1>4. /\ Has(ui', {"loading", "error", "section"}) /\ ui'.section = Observe!Section
      /\ ui'.loading = FALSE /\ UNCHANGED srv
  BY <1>1 DEF ObserveInv, Observe!ShowOverview, Observe!ShowError, Observe!Got, Has
<1>5. Asking(ui'.section.loading) = {} /\ ui'.section.dd = "unknown"
  BY <1>4, NewSection, KindsOf
<1>6. CASE Observe!ShowError(c) \/ srv.apps = {}
  <2>1. net' = Settled(net, c) /\ ui'.error \in BOOLEAN /\ (ui'.error \/ srv'.apps = {})
    BY <1>1, <1>4, <1>6, ObserveCalls DEF ObserveInv, Observe!ShowOverview, Observe!ShowError, Observe!Got, Has
  <2>2. InTheAir(ui', srv') = {}
    BY <1>4, <1>5, <2>1 DEF InTheAir, Waiting
  <2> QED
    BY <1>3, <1>4, <2>1, <2>2, NewSection DEF ObserveInv
<1>7. CASE Observe!ShowOverview(c) /\ srv.apps # {}
  <2> DEFINE d == Call("dd-status", <<>>)
  <2>1. net' = Settled(net, c) (+) SetToBag({d}) /\ ui'.error = FALSE
    BY <1>1, <1>7, ObserveCalls DEF ObserveInv, Observe!ShowOverview, Has, Send
  <2>2. Once(net') /\ BagToSet(net') = {d}
    BY <1>3, <2>1, OnceSent
  <2>3. InTheAir(ui', srv') = {d}
    BY <1>4, <1>5, <1>7, <2>1 DEF InTheAir, Waiting
  <2> QED
    BY <1>4, <2>1, <2>2, <2>3, NewSection DEF ObserveInv
<1> QED
  BY <1>6, <1>7

LEMMA StatusKeeps ==
    ASSUME ObserveInv, NEW c \in InFlight(net, "dd-status"),
           Observe!ShowStatus(c) \/ Observe!NoStatus(c)
    PROVE  ObserveInv'
<1> DEFINE s == ui.section
<1>1. c \in BagToSet(net) /\ c = Call("dd-status", <<>>) /\ Waiting(ui, srv)
  BY WhatIsIt DEF InFlight
<1>2. Has(ui, {"loading", "error", "section"}) /\ Has(s, SectionFields)
  BY DEF ObserveInv, SectionOK
<1>3. /\ net' = Settled(net, c) /\ UNCHANGED srv
      /\ Has(ui', {"loading", "error", "section"}) /\ Has(ui'.section, SectionFields)
      /\ ui'.loading = ui.loading /\ ui'.error = ui.error /\ ui'.section.dd \in {"yes", "no"}
      /\ ui'.section.cache = s.cache /\ ui'.section.loading = s.loading
      /\ ui'.section.expanded = s.expanded /\ ui'.section.blind = s.blind
  BY <1>2, ObserveCalls DEF Observe!ShowStatus, Observe!NoStatus, Observe!Got, Has, SectionFields
<1>4. ~ui.loading /\ ~ui.error /\ s.expanded \subseteq s.blind
  BY <1>1 DEF Waiting, ObserveInv, SectionOK
<1>5. SectionOK(ui'.section, srv')
  BY <1>3, <1>4 DEF SectionOK
<1>6. Once(net') /\ BagToSet(net') = BagToSet(net) \ {c}
  BY <1>1, <1>3, OnceSettled DEF ObserveInv
<1>7. BagToSet(net) = Asking(s.loading) \cup {c} /\ c \notin Asking(s.loading)
  BY <1>1, <1>4, KindsOf DEF ObserveInv, InTheAir
<1>8. InTheAir(ui', srv') = Asking(s.loading)
  BY <1>3, <1>4 DEF InTheAir, Waiting
<1> QED
  BY <1>3, <1>4, <1>5, <1>6, <1>7, <1>8 DEF ObserveInv

LEMMA MetricsKeep ==
    ASSUME ObserveInv, NEW c \in InFlight(net, "metrics"), Observe!ShowMetrics(c)
    PROVE  ObserveInv'
<1> DEFINE s == ui.section
           x == c.arg[1]
<1>1. c \in BagToSet(net) /\ c = Call("metrics", <<x>>) /\ x \in s.loading
  BY WhatIsIt DEF InFlight
<1>2. Has(ui, {"loading", "error", "section"}) /\ Has(s, SectionFields)
  BY DEF ObserveInv, SectionOK
<1>3. ~ui.loading /\ ~ui.error
  BY <1>1, NewSection DEF ObserveInv
<1>4. /\ net' = Settled(net, c) /\ UNCHANGED srv
      /\ ui' = [ui EXCEPT !.section.cache = @ \cup {x}, !.section.loading = @ \ {x}]
  BY ObserveCalls DEF Observe!ShowMetrics, Observe!Got
<1> HIDE DEF x
<1>5. /\ Has(ui', {"loading", "error", "section"}) /\ Has(ui'.section, SectionFields)
      /\ ui'.loading = ui.loading /\ ui'.error = ui.error /\ ui'.section.dd = s.dd
      /\ ui'.section.cache = s.cache \cup {x} /\ ui'.section.loading = s.loading \ {x}
      /\ ui'.section.expanded = s.expanded /\ ui'.section.blind = s.blind
  BY <1>2, <1>4 DEF Has, SectionFields
<1>7. SectionOK(ui'.section, srv')
  BY <1>4, <1>5 DEF ObserveInv, SectionOK
<1>8. Once(net') /\ BagToSet(net') = BagToSet(net) \ {c}
  BY <1>1, <1>4, OnceSettled DEF ObserveInv
<1>9. Asking(s.loading \ {x}) = Asking(s.loading) \ {c}
  <2>1. \A y : Call("metrics", <<y>>) = c <=> y = x
    <3>1. c = Call("metrics", <<x>>)
      BY <1>1
    <3> QED
      BY <3>1, OneMetrics
  <2> HIDE DEF s
  <2> QED
    BY <2>1 DEF Asking
<1>10. c.kind = "metrics"
  BY DEF InFlight
<1>11. InTheAir(ui', srv') = InTheAir(ui, srv) \ {c}
  <2>1. Waiting(ui', srv') <=> Waiting(ui, srv)
    BY <1>4, <1>5 DEF Waiting
  <2> DEFINE W == {d \in {Call("dd-status", <<>>)} : Waiting(ui, srv)}
  <2>2. c \notin W
    BY <1>10, KindsOf
  <2>3. InTheAir(ui, srv) = Asking(s.loading) \cup W
    BY <1>3 DEF InTheAir
  <2>4. InTheAir(ui', srv') = Asking(s.loading \ {x}) \cup W
    BY <1>3, <1>5, <2>1 DEF InTheAir
  <2> HIDE DEF W, s
  <2> QED
    BY <1>9, <2>2, <2>3, <2>4
<1> QED
  BY <1>3, <1>4, <1>5, <1>7, <1>8, <1>11 DEF ObserveInv

LEMMA ObserveNext == ASSUME ObserveInv, Observe!Next PROVE ObserveInv'
BY RetryKeeps, ExpandKeeps, CloseKeeps, OverviewKeeps, StatusKeeps, MetricsKeep, ObserveCalls
   DEF Observe!Next, Observe!User, Observe!Deliver, Observe!Answers

ObserveKept == tab = "observability" => ObserveInv

LEMMA ObserveKeeps == ASSUME ObserveKept, [Next]_vars PROVE ObserveKept'
<1> SUFFICES ASSUME tab' = "observability" PROVE ObserveInv'
  BY DEF ObserveKept
<1>1. tab = "observability" /\ ObserveInv
  BY TabStays DEF ObserveKept
<1>2. CASE Observe!Next
  BY <1>1, <1>2, ObserveNext
<1>3. CASE UNCHANGED vars
  BY <1>1, <1>3 DEF vars, ObserveInv
<1> QED
  BY <1>1, <1>2, <1>3 DEF Next, Step

LEMMA InitObserve == ASSUME Observe!Init PROVE ObserveInv
<1> DEFINE d == Call("overview", <<>>)
<1>1. /\ Has(ui, {"loading", "error", "section"}) /\ ui.loading = TRUE /\ ui.error = FALSE
      /\ ui.section = Observe!Section
  BY DEF Observe!Init, Has
<1>2. net = NoCalls (+) SetToBag({d})
  BY ObserveCalls DEF Observe!Init, Send
<1>3. Once(NoCalls)
  BY NoCallsYet DEF Once
<1>4. Once(net) /\ BagToSet(net) = {d}
  BY <1>2, <1>3, NoCallsYet, OnceSent
<1>5. InTheAir(ui, srv) = {d}
  BY <1>1, NewSection, KindsOf DEF InTheAir, Waiting
<1> QED
  BY <1>1, <1>4, <1>5, NewSection DEF ObserveInv

(* The metrics of every cluster in an open group are there or asked for,    *)
(* once, however groups that share clusters are opened, closed and          *)
(* regrouped while answers arrive (fetchClusterMetrics, Observability.tsx). *)
THEOREM MetricsAreAskedOnce == Spec => []MetricsAskedOnce
<1>1. Init => ObserveKept
  BY InitObserve DEF Init, ObserveKept
<1>2. ObserveKept => MetricsAskedOnce
  <2> SUFFICES ASSUME ObserveInv PROVE Observe!MetricsAskedOnce
    BY DEF ObserveKept, MetricsAskedOnce
  <2>1. \A g \in ui.section.expanded \ ui.section.blind :
           ui.section.dd = "yes"
              => Observe!ClustersOf(g) \subseteq ui.section.cache \cup ui.section.loading
    BY ClustersAre DEF ObserveInv, SectionOK
  <2>2. \A c \in BagToSet(net) : net[c] = 1
    BY DEF ObserveInv, Once
  <2>3. \A c, d \in InFlight(net, "metrics") : c.arg = d.arg => c = d
    BY WhatIsIt DEF InFlight
  <2>4. ui.section.loading = {c.arg[1] : c \in InFlight(net, "metrics")}
    <3>1. ASSUME NEW x \in ui.section.loading
          PROVE  Call("metrics", <<x>>) \in InFlight(net, "metrics")
      BY <3>1 DEF ObserveInv, InTheAir, Asking, InFlight, Call
    <3>2. \A c \in InFlight(net, "metrics") : c.arg[1] \in ui.section.loading
      BY WhatIsIt DEF InFlight
    <3>3. \A x : x = Call("metrics", <<x>>).arg[1]
      BY KindsOf
    <3>4. \A x \in ui.section.loading : \E c \in InFlight(net, "metrics") : x = c.arg[1]
      BY <3>1, <3>3
    <3> DEFINE L == ui.section.loading
               M == InFlight(net, "metrics")
    <3>5. /\ \A x \in L : \E c \in M : x = c.arg[1]
          /\ \A c \in M : c.arg[1] \in L
      BY <3>2, <3>4
    <3> HIDE DEF L, M
    <3>6. L = {c.arg[1] : c \in M}
      BY <3>5
    <3> QED
      BY <3>6 DEF L, M
  <2> QED
    BY <2>1, <2>2, <2>3, <2>4, ObserveCalls DEF Observe!MetricsAskedOnce
<1> QED
  BY <1>1, <1>2, ObserveKeeps, PTL DEF Spec
=============================================================================
