------------------------------ MODULE Checkout ------------------------------
(***************************************************************************)
(* Completing a sale, from the button to the books: the checkout dialog    *)
(* (pages/pos/CheckoutModal.jsx) submits the cart, request (api/client.js) *)
(* sends it again when the network or the server fails, and checkout and   *)
(* amend (routers/pos.py) look the key of the submission up, ring the sale *)
(* and store the key with its payment.  A call that its sender has given   *)
(* up goes on at the server.                                               *)
(*                                                                         *)
(* Goods stand for what is sold: each is one thing, rung once or twice.    *)
(* A submission takes money now (due) unless it is an instalment sale with *)
(* no deposit.  One earlier sale, of OldGood, may be corrected: POS.jsx    *)
(* keeps which (amending) and RegisterView.jsx seeds its cart with it.     *)
(* Leaving the register's tab unmounts the register and its cart, but not  *)
(* the submissions on their way, nor what POS.jsx does with their answer.  *)
(***************************************************************************)
EXTENDS Naturals, FiniteSets

CONSTANTS
  Good, OldGood,
  MAX_RETRIES,     \* attempts per request, in the client
  MaxSubmissions,  \* bound: presses of the button
  MaxCancels       \* bound: corrections dropped

ASSUME CheckoutAssumption ==
  /\ OldGood \in Good /\ MAX_RETRIES \in Nat \ {0}
  /\ MaxSubmissions \in Nat /\ MaxCancels \in Nat

VARIABLES
  counter,       \* goods the cashier has still to ring
  cart, amending,
  dialog,        \* the checkout dialog is open
  busy, shortfall,
  keys,          \* submissions made so far: idempotency keys are fresh
  submissions,   \* the ones the client waits for
  calls,         \* what the server was sent
  sales,
  corrected,     \* the earlier sale is marked 'amended'
  receipts,      \* keys of the submissions reported as done
  abandoned,     \* keys whose dialog was closed before the answer
  cancels,       \* corrections the cashier dropped, keeping their goods
  unhooked       \* an answer for a register that is gone dropped one

tillVars == <<counter, cart, amending>>
dialogVars == <<dialog, busy, shortfall>>
wireVars == <<keys, submissions, calls>>
bookVars == <<sales, corrected>>
ghostVars == <<receipts, abandoned, cancels, unhooked>>
vars == <<tillVars, dialogVars, wireVars, bookVars, ghostVars>>

-----------------------------------------------------------------------------
Key == 1 .. MaxSubmissions
Body == [key : Key, goods : SUBSET Good, due : BOOLEAN,
         backorder : BOOLEAN, corrects : BOOLEAN]
\* Is its dialog still open, is its register still mounted?
Submission == [body : Body, attempt : 1 .. MAX_RETRIES, open : BOOLEAN, here : BOOLEAN]
Stage == {"sent", "checked", "ok", "short", "refused", "error"}
Call == [body : Body, attempt : 1 .. MAX_RETRIES, stage : Stage]
SaleRow == [body : Body, attempt : 1 .. MAX_RETRIES]

CheckoutTypeOK ==
  /\ counter \subseteq Good /\ cart \subseteq Good /\ amending \in BOOLEAN
  /\ dialog \in BOOLEAN /\ busy \in BOOLEAN /\ shortfall \in BOOLEAN
  /\ keys \in 0 .. MaxSubmissions
  /\ \A s \in submissions : s.body.key \in Key /\ s.attempt \in 1 .. MAX_RETRIES
  /\ \A c \in calls : c.attempt \in 1 .. MAX_RETRIES /\ c.stage \in Stage
  /\ \A s \in sales : s.body.goods \subseteq Good /\ s.body.goods # {}
  /\ corrected \in BOOLEAN /\ receipts \subseteq Key /\ abandoned \subseteq Key
  /\ cancels \in 0 .. MaxCancels /\ unhooked \in BOOLEAN

CheckoutInit ==
  /\ counter = Good \ {OldGood} /\ cart = {} /\ amending = FALSE
  /\ dialog = FALSE /\ busy = FALSE /\ shortfall = FALSE
  /\ keys = 0 /\ submissions = {} /\ calls = {}
  /\ sales = {} /\ corrected = FALSE
  /\ receipts = {} /\ abandoned = {} /\ cancels = 0 /\ unhooked = FALSE

-----------------------------------------------------------------------------
(* The cashier at the register; the dialog covers it while it is open.     *)
Scan(g) ==
  /\ ~dialog /\ g \in counter
  /\ cart' = cart \union {g} /\ counter' = counter \ {g}
  /\ UNCHANGED <<amending, dialogVars, wireVars, bookVars, ghostVars>>

(* A register mounted anew has the lines of the sale that is corrected, or *)
(* none: what was in the cart has to be rung again.                        *)
Remounted ==
  /\ cart' = {g \in {OldGood} : amending'}
  /\ counter' = counter \union (cart \ {OldGood})
  /\ submissions' = {[s EXCEPT !.here = FALSE] : s \in submissions}

(* The history's button, which also goes back to the register's tab. *)
StartAmend ==
  /\ ~dialog /\ ~corrected
  /\ amending' = TRUE /\ Remounted
  /\ UNCHANGED <<dialogVars, keys, calls, bookVars, ghostVars>>

(* Another tab and back. *)
ChangeTabs ==
  /\ ~dialog
  /\ UNCHANGED amending /\ Remounted
  /\ UNCHANGED <<dialogVars, keys, calls, bookVars, ghostVars>>

(* The banner's button drops the correction, and leaves the cart alone. *)
CancelAmend ==
  /\ ~dialog /\ amending /\ cancels < MaxCancels
  /\ amending' = FALSE /\ cancels' = cancels + 1
  /\ UNCHANGED <<counter, cart, dialogVars, wireVars, bookVars, receipts, abandoned, unhooked>>

OpenDialog ==
  /\ ~dialog /\ cart # {}
  /\ dialog' = TRUE /\ busy' = FALSE /\ shortfall' = FALSE
  /\ UNCHANGED <<tillVars, wireVars, bookVars, ghostVars>>

(* Cancel, the cross, or a click beside the dialog; not disabled while it  *)
(* is busy.                                                                *)
CloseDialog ==
  /\ dialog
  /\ dialog' = FALSE /\ busy' = FALSE /\ shortfall' = FALSE
  /\ submissions' = {[s EXCEPT !.open = FALSE] : s \in submissions}
  /\ abandoned' = abandoned \union {s.body.key : s \in submissions}
  /\ UNCHANGED <<tillVars, keys, calls, bookVars, receipts, cancels, unhooked>>

DismissShortfall ==
  /\ shortfall /\ shortfall' = FALSE
  /\ UNCHANGED <<tillVars, dialog, busy, wireVars, bookVars, ghostVars>>

(* fetch: one more attempt of a submission. *)
Sent(s) == [body |-> s.body, attempt |-> s.attempt, stage |-> "sent"]

(* confirm: a back-order is what the cashier chooses after the server      *)
(* found the goods short, and is no plan.  The key is made here, once per  *)
(* press.                                                                  *)
Confirm(due, backorder) ==
  /\ dialog /\ ~busy
  /\ ~due => ~backorder
  /\ backorder <=> shortfall
  /\ LET s == [body |-> [key |-> keys + 1, goods |-> cart, due |-> due,
                         backorder |-> backorder, corrects |-> amending],
               attempt |-> 1, open |-> TRUE, here |-> TRUE] IN
       /\ submissions' = submissions \union {s}
       /\ calls' = calls \union {Sent(s)}
  /\ keys' = keys + 1
  /\ busy' = TRUE /\ shortfall' = FALSE
  /\ UNCHANGED <<tillVars, dialog, bookVars, ghostVars>>

-----------------------------------------------------------------------------
(* The server.  An answer nobody waits for any more is not kept. *)
AnswerTo(s, c) == c.body = s.body /\ c.attempt = s.attempt
Awaited(c) == \E s \in submissions : AnswerTo(s, c)

Becomes(c, stage) ==
  calls' = (calls \ {c}) \union
    {d \in {[c EXCEPT !.stage = stage]} : stage = "checked" \/ Awaited(c)}

(* invoice_payments holds a row with the key. *)
KeyStored(k) == \E s \in sales : s.body.key = k /\ s.body.due

Check(c) ==
  /\ c.stage = "sent"
  /\ IF (c.body.corrects /\ corrected) \/ KeyStored(c.body.key) THEN Becomes(c, "refused")
     ELSE \/ Becomes(c, "checked")
          \/ ~c.body.backorder /\ Becomes(c, "short")
  /\ UNCHANGED <<tillVars, dialogVars, keys, submissions, bookVars, ghostVars>>

CollidesOnNumber(b) == b.corrects /\ corrected
CollidesOnKey(b) == KeyStored(b.key)

(* The transaction: the unique index on the key of a payment, and, for a   *)
(* correction, the one on the invoice number it takes over, make the       *)
(* second of two fail; anything else may fail too.                         *)
Collides(b) == KeyStored(b.key) \/ (b.corrects /\ corrected)

Commit(c) ==
  /\ c.stage = "checked"
  /\ \/ /\ ~Collides(c.body)
        /\ sales' = sales \union {[body |-> c.body, attempt |-> c.attempt]}
        /\ corrected' = (corrected \/ c.body.corrects)
        /\ Becomes(c, "ok")
     \/ Becomes(c, "error") /\ UNCHANGED bookVars
  /\ UNCHANGED <<tillVars, dialogVars, keys, submissions, ghostVars>>

-----------------------------------------------------------------------------
(* The client. *)
Unfinished(s) == {c \in calls : AnswerTo(s, c) => c.stage \in {"sent", "checked"}}

(* onDone, in the register the submission was made at: its dialog closes,  *)
(* its cart is emptied, whatever they are by now.  When that register is   *)
(* gone, nothing happens to the one on the screen.                         *)
RegisterHears(s) ==
  \/ /\ s.here
     /\ cart' = {} /\ dialog' = FALSE /\ busy' = FALSE /\ shortfall' = FALSE
     /\ submissions' = {[x EXCEPT !.open = FALSE] : x \in submissions \ {s}}
  \/ /\ ~s.here
     /\ submissions' = submissions \ {s}
     /\ UNCHANGED <<cart, dialogVars>>

HearsKeepingCart(s) ==
  /\ dialog' = FALSE /\ busy' = FALSE /\ shortfall' = FALSE
  /\ submissions' = {[x EXCEPT !.open = FALSE] : x \in submissions \ {s}}
  /\ UNCHANGED cart

DoneUnchecked(s, c) ==
  /\ AnswerTo(s, c) /\ c.stage \in {"ok", "error"}
  /\ RegisterHears(s)
  /\ receipts' = receipts \union {s.body.key}
  /\ amending' = FALSE
  /\ unhooked' = (unhooked \/ (~s.here /\ amending))
  /\ calls' = Unfinished(s)
  /\ UNCHANGED <<counter, keys, bookVars, abandoned, cancels>>

DoneKeepingCart(s, c) ==
  /\ AnswerTo(s, c) /\ c.stage = "ok"
  /\ HearsKeepingCart(s)
  /\ receipts' = receipts \union {s.body.key}
  /\ amending' = FALSE
  /\ unhooked' = (unhooked \/ (~s.here /\ amending))
  /\ calls' = Unfinished(s)
  /\ UNCHANGED <<counter, keys, bookVars, abandoned, cancels>>

(* The answer of a recorded sale.  onSold, in POS.jsx, shows the receipt   *)
(* and forgets the correction, for whichever register is on the screen.    *)
Done(s, c) ==
  /\ AnswerTo(s, c) /\ c.stage = "ok"
  /\ RegisterHears(s)
  /\ receipts' = receipts \union {s.body.key}
  /\ amending' = FALSE
  /\ unhooked' = (unhooked \/ (~s.here /\ amending))
  /\ calls' = Unfinished(s)
  /\ UNCHANGED <<counter, keys, bookVars, abandoned, cancels>>

FailedStayingBusy(s, short) ==
  /\ submissions' = submissions \ {s}
  /\ calls' = Unfinished(s)
  /\ UNCHANGED <<tillVars, dialogVars, keys, bookVars, ghostVars>>

(* The catch branch; a dialog closed meanwhile does not notice.  The       *)
(* back-order is offered when a customer is named, as one is for a plan.   *)
Failed(s, short) ==
  LET offer == s.open /\ short /\ ~s.body.backorder IN
  /\ submissions' = submissions \ {s}
  /\ busy' = IF s.open THEN FALSE ELSE busy
  /\ \/ offer /\ shortfall' = TRUE
     \/ (offer => s.body.due) /\ UNCHANGED shortfall
  /\ calls' = Unfinished(s)
  /\ UNCHANGED <<tillVars, dialog, keys, bookVars, ghostVars>>

Refused(s, c) ==
  /\ AnswerTo(s, c) /\ c.stage \in {"short", "refused"}
  /\ Failed(s, c.stage = "short")

(* request's loop: the network failed or the server answered with a 5xx,   *)
(* and the same body is sent once more, MAX_RETRIES times in all.          *)
SendAgain(s) ==
  LET again == [s EXCEPT !.attempt = @ + 1] IN
  /\ submissions' = (submissions \ {s}) \union {again}
  /\ calls' = Unfinished(s) \union {Sent(again)}
  /\ UNCHANGED <<tillVars, dialogVars, keys, bookVars, ghostVars>>

RetryForever(s) == SendAgain(s)

Retry(s) ==
  IF s.attempt < MAX_RETRIES THEN SendAgain(s) ELSE Failed(s, FALSE)

ServerError(s, c) == AnswerTo(s, c) /\ c.stage = "error" /\ Retry(s)

(* The call or its answer is lost; the call may have arrived. *)
Unreachable(s) == Retry(s)

(* The bound on the presses of the button ends the work at the register.   *)
Rings ==
  \/ \E g \in Good : Scan(g)
  \/ StartAmend \/ ChangeTabs \/ CancelAmend \/ OpenDialog
  \/ \E due, backorder \in BOOLEAN : Confirm(due, backorder)

Cashier ==
  \/ keys < MaxSubmissions /\ Rings
  \/ CloseDialog \/ DismissShortfall

Server == \E c \in calls : Check(c) \/ Commit(c)

Answer(s) == \E c \in calls : Done(s, c) \/ Refused(s, c) \/ ServerError(s, c)
Client == \E s \in submissions : Answer(s) \/ Unreachable(s)

CheckoutNext == Cashier \/ Server \/ Client

(* Every attempt is answered or fails: the browser does not wait for ever. *)
(* The server and the cashier owe nothing.                                 *)
CheckoutSpec == CheckoutInit /\ [][CheckoutNext]_vars /\ WF_vars(Client)

-----------------------------------------------------------------------------
(* A submission that takes money becomes one sale, however often the       *)
(* client sends it and however its calls overlap at the server.            *)
OneSalePerPayment ==
  \A s, t \in sales : s.body.key = t.body.key /\ s.body.due => s = t

(* An earlier sale is corrected once, by whichever submission comes first, *)
(* although each press of the button makes a new key.                      *)
CorrectedOnce ==
  \A s, t \in sales : s.body.corrects /\ t.body.corrects => s = t

(* A receipt is shown for what is in the books, and for nothing else. *)
DoneIsRecorded ==
  \A k \in receipts : \E s \in sales : s.body.key = k

(* Goods are rung twice only when one of the two submissions was never     *)
(* seen to succeed, or was left while it was on its way: a cashier who     *)
(* waits for the receipt sells each thing once.  Except for the goods of   *)
(* an earlier sale whose correction was dropped with them in the cart.     *)
TwiceOnlyUnseen ==
  \A s, t \in sales :
    LET both == s.body.goods \intersect t.body.goods IN
    s.body.key # t.body.key /\ both # {} =>
      \/ {s.body.key, t.body.key} \intersect abandoned # {}
      \/ ~({s.body.key, t.body.key} \subseteq receipts)
      \/ both = {OldGood} /\ (cancels > 0 \/ unhooked)

(* The button does not stay "saving": an attempt ends, and there are       *)
(* MAX_RETRIES of them.                                                    *)
ConfirmSettles == busy ~> ~busy

(* "Idempotency - a repeated submit (same key) is rejected before any      *)
(* write" (routers/pos.py): no submission at all becomes two sales.        *)
OneSalePerKey ==
  \A s, t \in sales : s.body.key = t.body.key => s = t

(* What was sold before is sold again only in place of it: correcting      *)
(* "seeds the register with what was sold [...] the server takes the       *)
(* original off the books in the same breath" (pages/POS.jsx).  Unless the *)
(* cashier drops the correction.                                           *)
CorrectionsReplace ==
  \A s \in sales : OldGood \in s.body.goods => s.body.corrects \/ cancels > 0

(* Goods leave the cart by being sold: "The next sale starts immediately"  *)
(* (docs/manual/docs/operations/pos.md), with nothing of it missing.       *)
GoodsLeaveSold ==
  \A g \in Good \ ({OldGood} \union counter \union cart) :
    \E s \in sales : g \in s.body.goods
=============================================================================
