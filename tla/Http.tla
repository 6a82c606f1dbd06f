-------------------------------- MODULE Http --------------------------------
(***************************************************************************)
(* The requests a page of the web UI has in flight (ui/src/services/api.ts *)
(* over the browser's fetch), as a bag of calls.  Nothing orders them: two *)
(* requests may be handled by the server, and their answers delivered to   *)
(* the page, in any order, and any of them may fail.                       *)
(*                                                                         *)
(* A page whose server does not change while it is shown handles a request *)
(* at the moment its answer is delivered; the others let the server handle *)
(* it in a step of its own (Answered), and deliver the answer later.       *)
(***************************************************************************)
EXTENDS Naturals, FiniteSets, Sequences, Bags

\* The most requests a page has in flight at once (a bound of the model).
CONSTANT MaxCalls

ASSUME MaxCallsAssumption == MaxCalls \in Nat \ {0}

NoCalls == EmptyBag

\* The page still has room for n more requests.
Room(net, n) == BagCardinality(net) + n <= MaxCalls

\* What the page asked: the arguments it captured when it sent the request,
\* and the server's answer, a tuple each, empty when there is none.
Call(kind, arg) == [kind |-> kind, arg |-> arg, st |-> "sent", ans |-> <<>>]

\* fetchJSON, postJSON, putJSON and deleteJSON: the request leaves the page.
Send(net, kind, arg) == net (+) SetToBag({Call(kind, arg)})

\* The promise settles: the page's continuation runs and the request is over.
Settled(net, c) == net (-) SetToBag({c})

Moved(net, c, d) == Settled(net, c) (+) SetToBag({d})

\* The server has handled the request; res.ok says how.
Answered(net, c, ans) == Moved(net, c, [c EXCEPT !.st = "ok", !.ans = ans])

Refused(net, c) == Moved(net, c, [c EXCEPT !.st = "failed"])

InFlight(net, kind) == {c \in BagToSet(net) : c.kind = kind}

Sent(net, kind) == {c \in InFlight(net, kind) : c.st = "sent"}

\* What may turn: the page itself, a part of it, the button of something the
\* user asked for.
Spinners == {"page", "part", "action"}
=============================================================================
