--------------------------- MODULE Checkout_proofs ---------------------------
(***************************************************************************)
(* Completing a sale, for any goods, any number of attempts and any number *)
(* of presses of the button.                                               *)
(*                                                                         *)
(* At the server, a transaction that finds its key stored or the earlier   *)
(* sale corrected fails: this alone keeps payments and corrections single. *)
(* That a cashier who waits for the receipt sells each thing once is the   *)
(* dialog's doing: while a submission that was not abandoned is on its way *)
(* the cart holds what it sells and the button is off, or those goods have *)
(* left the cart for good (AtTheTill), so that no two such submissions     *)
(* sell the same thing (Gone).  The goods of a sale to correct are under   *)
(* its correction, unless the correction was dropped (Dropped).            *)
(***************************************************************************)
EXTENDS Checkout, TLAPS

Formed ==
  /\ submissions \subseteq Submission /\ calls \subseteq Call /\ sales \subseteq SaleRow
  /\ counter \subseteq Good /\ cart \subseteq Good
  /\ amending \in BOOLEAN /\ dialog \in BOOLEAN /\ busy \in BOOLEAN
  /\ shortfall \in BOOLEAN /\ corrected \in BOOLEAN
  /\ keys \in 0 .. MaxSubmissions
  /\ cancels \in 0 .. MaxCancels /\ unhooked \in BOOLEAN

\* A correction was dropped with its goods in the cart.
Dropped == cancels > 0 \/ unhooked

\* What was submitted, as far as anybody still has it.
Bodies ==
  {s.body : s \in submissions} \union {c.body : c \in calls} \union {s.body : s \in sales}

\* A key is made once, for one cart.
Written ==
  /\ \A b \in Bodies : b.goods # {} /\ b.key <= keys
  /\ \A b \in Bodies : OldGood \in b.goods => b.corrects \/ Dropped
  /\ \A a, b \in Bodies : a.key = b.key => a = b
  /\ \A k \in receipts \union abandoned : k \in Key /\ k <= keys

\* Goods that can still be rung as new.
Free == (counter \union cart) \ {OldGood}

AtTheTill ==
  /\ counter \intersect cart = {} /\ OldGood \notin counter
  /\ OldGood \in cart => amending \/ Dropped
  /\ dialog => cart # {}
  /\ \A s, t \in submissions : s.body.key = t.body.key => s = t
  /\ \A s, t \in submissions : s.open /\ t.open => s = t
  /\ \A s \in submissions : s.open => s.here /\ dialog /\ busy /\ s.body.goods = cart
  /\ \A s \in submissions :
       ~s.open => s.body.key \in abandoned \/ s.body.goods \intersect Free = {}

Books ==
  /\ OneSalePerPayment /\ CorrectedOnce /\ DoneIsRecorded
  /\ \A c \in calls : c.stage = "ok" => \E s \in sales : s.body = c.body
  /\ \A s \in sales : s.body.corrects => corrected

\* Submissions nobody gave up, on their way or seen to succeed.
Watched(b) ==
  b.key \notin abandoned /\ (b.key \in receipts \/ \E s \in submissions : s.body = b)

Gone ==
  /\ \A b \in Bodies :
       b.key \in receipts /\ b.key \notin abandoned => b.goods \intersect Free = {}
  /\ \A a, b \in Bodies :
       Watched(a) /\ Watched(b) /\ a # b => a.goods \intersect b.goods \subseteq {OldGood}

CheckoutInv == Formed /\ Written /\ AtTheTill /\ Books /\ Gone

---------------------------------------------------------------------------
\* Before anything is rung nothing is on the wire, in the books or on the screen.
LEMMA CheckoutInitially == CheckoutInit => CheckoutInv
<1> SUFFICES ASSUME CheckoutInit PROVE CheckoutInv
  OBVIOUS
<1>1. submissions = {} /\ calls = {} /\ sales = {} /\ Bodies = {}
  BY DEF CheckoutInit, Bodies
<1>2. Formed
  <2>1. /\ counter \subseteq Good /\ cart \subseteq Good /\ keys \in 0 .. MaxSubmissions
        /\ cancels \in 0 .. MaxCancels
    BY CheckoutAssumption DEF CheckoutInit
  <2> QED
    BY <1>1, <2>1 DEF CheckoutInit, Formed
<1>3. Written /\ AtTheTill /\ Books /\ Gone
  BY <1>1 DEF CheckoutInit, Written, AtTheTill, Books, Gone, OneSalePerPayment, CorrectedOnce,
     DoneIsRecorded
<1> QED
  BY <1>2, <1>3 DEF CheckoutInv

\* Whoever has a body has one that is in Bodies.
LEMMA HeldBodies ==
  /\ \A s \in submissions : s.body \in Bodies
  /\ \A c \in calls : c.body \in Bodies
  /\ \A s \in sales : s.body \in Bodies
  BY DEF Bodies

\* What a submission carries has the type of a body.
LEMMA BodyForm ==
  ASSUME Formed
  PROVE  Bodies \subseteq Body
  BY DEF Formed, Bodies, Submission, Call, SaleRow

\* A step that hands bodies on makes none.
LEMMA NothingNew ==
  ASSUME \A s \in submissions' : \E x \in submissions : x.body = s.body,
         \A c \in calls' : c.body \in Bodies,
         \A s \in sales' : s.body \in Bodies
  PROVE  Bodies' \subseteq Bodies
  BY DEF Bodies

---------------------------------------------------------------------------
(* The cashier.                                                            *)

\* A submission told that its register is gone.
Orphan(s) == [s EXCEPT !.here = FALSE]

\* Nothing else about it changes.
LEMMA OrphanForm ==
  ASSUME NEW s \in Submission
  PROVE  /\ Orphan(s) \in Submission
         /\ Orphan(s).body = s.body /\ Orphan(s).open = s.open
  BY DEF Submission, Orphan

\* What the cashier does at the register, and with a dialog that submitted
\* nothing; the submissions on their way may lose their register.
LEMMA TillKeeps ==
  ASSUME CheckoutInv, UNCHANGED <<keys, calls, bookVars, receipts, abandoned, unhooked>>,
         \/ submissions' = submissions
         \/ submissions' = {Orphan(s) : s \in submissions} /\ \A s \in submissions : ~s.open,
         counter' \subseteq Good, cart' \subseteq Good,
         amending' \in BOOLEAN, dialog' \in BOOLEAN, busy' \in BOOLEAN, shortfall' \in BOOLEAN,
         cancels' \in 0 .. MaxCancels, Dropped => Dropped',
         counter' \intersect cart' = {}, OldGood \notin counter',
         OldGood \in cart' => amending' \/ Dropped', dialog' => cart' # {},
         Free' \subseteq Free,
         \A s \in submissions : s.open => dialog' /\ busy' /\ cart' = cart
  PROVE  CheckoutInv'
<1>1. UNCHANGED <<keys, calls, sales, corrected, receipts, abandoned, unhooked>>
  BY DEF bookVars
<1>2. Formed /\ Written /\ AtTheTill /\ Books /\ Gone
  BY DEF CheckoutInv
<1>3. /\ submissions' \subseteq Submission
      /\ \A y \in submissions' :
           \E x \in submissions : x.body = y.body /\ x.open = y.open /\ (y = x \/ y = Orphan(x))
  BY <1>2, OrphanForm DEF Formed
<1>4. Bodies' \subseteq Bodies
  BY <1>1, <1>3, HeldBodies, NothingNew
<1>5. Formed'
  BY <1>1, <1>2, <1>3 DEF Formed
<1>6. Written'
  BY <1>1, <1>2, <1>4 DEF Written
<1>7. Books'
  BY <1>1, <1>2 DEF Books, OneSalePerPayment, CorrectedOnce, DoneIsRecorded
<1>8. AtTheTill'
  <2>1. ASSUME NEW s \in submissions', NEW t \in submissions', s.body.key = t.body.key
        PROVE  s = t
    <3>1. CASE submissions' = submissions
      BY <1>2, <2>1, <3>1 DEF AtTheTill
    <3>2. CASE submissions' = {Orphan(x) : x \in submissions}
      <4>1. PICK x \in submissions : s = Orphan(x)
        BY <3>2
      <4>2. PICK y \in submissions : t = Orphan(y)
        BY <3>2
      <4>3. x.body.key = y.body.key
        BY <1>2, <2>1, <4>1, <4>2, OrphanForm DEF Formed
      <4> QED
        BY <1>2, <4>1, <4>2, <4>3 DEF AtTheTill
    <3> QED
      BY <3>1, <3>2
  <2>2. ASSUME NEW s \in submissions', NEW t \in submissions', s.open, t.open
        PROVE  s = t
    <3>1. PICK x \in submissions : x.body = s.body /\ x.open
      BY <1>3, <2>2
    <3>2. PICK y \in submissions : y.body = t.body /\ y.open
      BY <1>3, <2>2
    <3>3. x = y
      BY <1>2, <3>1, <3>2 DEF AtTheTill
    <3> QED
      BY <2>1, <3>1, <3>2, <3>3
  <2>3. ASSUME NEW s \in submissions', s.open
        PROVE  s.here /\ dialog' /\ busy' /\ s.body.goods = cart'
    <3>1. CASE submissions' = submissions
      BY <1>2, <2>3, <3>1 DEF AtTheTill
    <3>2. CASE \A x \in submissions : ~x.open
      BY <1>3, <2>3, <3>2
    <3> QED
      BY <3>1, <3>2
  <2>4. \A s \in submissions' :
          ~s.open => s.body.key \in abandoned' \/ s.body.goods \intersect Free' = {}
    BY <1>1, <1>2, <1>3 DEF AtTheTill
  <2> QED
    BY <2>1, <2>2, <2>3, <2>4 DEF AtTheTill
<1>9. \A b : Watched(b)' => Watched(b)
  BY <1>1, <1>3 DEF Watched
<1>10. Gone'
  BY <1>1, <1>2, <1>4, <1>9 DEF Gone
<1> QED
  BY <1>5, <1>6, <1>7, <1>8, <1>10 DEF CheckoutInv

\* A register that is mounted anew has no dialog, and its cart nothing to be
\* rung as new.
LEMMA RemountKeeps ==
  ASSUME CheckoutInv, ~dialog, Remounted, amending' \in BOOLEAN,
         UNCHANGED <<dialogVars, keys, calls, bookVars, ghostVars>>
  PROVE  CheckoutInv'
<1>1. Formed /\ AtTheTill
  BY DEF CheckoutInv
<1>2. /\ cart' \subseteq {OldGood} /\ (OldGood \in cart' => amending')
      /\ counter' = counter \union (cart \ {OldGood})
      /\ submissions' = {Orphan(s) : s \in submissions}
      /\ UNCHANGED <<dialog, busy, shortfall, keys, calls, bookVars, receipts, abandoned,
                     cancels, unhooked>>
  BY DEF Remounted, dialogVars, ghostVars, Orphan
<1>3. Free' \subseteq Free /\ (Dropped => Dropped')
  BY <1>2 DEF Free, Dropped
<1>4. \A s \in submissions : ~s.open
  BY <1>1 DEF AtTheTill
<1>5. /\ counter' \subseteq Good /\ cart' \subseteq Good /\ counter' \intersect cart' = {}
      /\ OldGood \notin counter'
  BY <1>1, <1>2, CheckoutAssumption DEF Formed, AtTheTill
<1>6. cancels' \in 0 .. MaxCancels /\ dialog' \in BOOLEAN /\ busy' \in BOOLEAN /\ shortfall' \in BOOLEAN
  BY <1>1, <1>2 DEF Formed
<1> QED
  BY <1>2, <1>3, <1>4, <1>5, <1>6, TillKeeps

\* Filling the cart, changing what it is for and opening the dialog concern no
\* submission.
LEMMA RegisterKeeps ==
  ASSUME CheckoutInv,
         \/ \E g \in Good : Scan(g)
         \/ StartAmend \/ ChangeTabs \/ CancelAmend \/ OpenDialog \/ DismissShortfall
  PROVE  CheckoutInv'
<1>1. Formed /\ AtTheTill
  BY DEF CheckoutInv
<1>2. ASSUME NEW g \in Good, Scan(g) PROVE CheckoutInv'
  <2>1. /\ ~dialog /\ g \in counter /\ cart' = cart \union {g} /\ counter' = counter \ {g}
        /\ UNCHANGED <<amending, dialog, busy, shortfall, keys, submissions, calls, bookVars,
                       receipts, abandoned, cancels, unhooked>>
    BY <1>2 DEF Scan, dialogVars, wireVars, ghostVars
  <2>2. Free' = Free /\ Dropped' = Dropped
    BY <2>1 DEF Free, Dropped
  <2>3. \A s \in submissions : ~s.open
    BY <1>1, <2>1 DEF AtTheTill
  <2>4. /\ counter' \subseteq Good /\ cart' \subseteq Good /\ counter' \intersect cart' = {}
        /\ OldGood \notin counter' /\ OldGood # g
    BY <1>1, <2>1 DEF Formed, AtTheTill
  <2>5. OldGood \in cart' => amending' \/ Dropped'
    BY <1>1, <2>1, <2>2, <2>4 DEF AtTheTill
  <2> QED
    BY <1>1, <2>1, <2>2, <2>3, <2>4, <2>5, TillKeeps DEF Formed, AtTheTill
<1>3. CASE StartAmend
  BY <1>3, RemountKeeps DEF StartAmend
<1>4. CASE ChangeTabs
  <2>1. amending' \in BOOLEAN
    BY <1>1, <1>4 DEF ChangeTabs, Formed
  <2> QED
    BY <1>4, <2>1, RemountKeeps DEF ChangeTabs
<1>5. CASE CancelAmend
  <2>1. /\ ~dialog /\ amending' = FALSE /\ cancels < MaxCancels /\ cancels' = cancels + 1
        /\ UNCHANGED <<counter, cart, dialog, busy, shortfall, keys, submissions, calls, bookVars,
                       receipts, abandoned, unhooked>>
    BY <1>5 DEF CancelAmend, dialogVars, wireVars
  <2>2. cancels' \in 0 .. MaxCancels /\ cancels' > 0
    BY <1>1, <2>1, CheckoutAssumption DEF Formed
  <2>3. Free' = Free /\ Dropped'
    BY <2>1, <2>2 DEF Free, Dropped
  <2>4. \A s \in submissions : ~s.open
    BY <1>1, <2>1 DEF AtTheTill
  <2> QED
    BY <1>1, <2>1, <2>2, <2>3, <2>4, TillKeeps DEF Formed, AtTheTill
<1>6. CASE OpenDialog
  <2>1. /\ ~dialog /\ cart # {} /\ dialog' = TRUE /\ busy' = FALSE /\ shortfall' = FALSE
        /\ UNCHANGED <<counter, cart, amending, keys, submissions, calls, bookVars,
                       receipts, abandoned, cancels, unhooked>>
    BY <1>6 DEF OpenDialog, tillVars, wireVars, ghostVars
  <2>2. Free' = Free /\ Dropped' = Dropped /\ \A s \in submissions : ~s.open
    BY <1>1, <2>1 DEF Free, Dropped, AtTheTill
  <2> QED
    BY <1>1, <2>1, <2>2, TillKeeps DEF Formed, AtTheTill
<1>7. CASE DismissShortfall
  <2>1. /\ shortfall' = FALSE
        /\ UNCHANGED <<counter, cart, amending, dialog, busy, keys, submissions, calls, bookVars,
                       receipts, abandoned, cancels, unhooked>>
    BY <1>7 DEF DismissShortfall, tillVars, wireVars, ghostVars
  <2>2. Free' = Free /\ Dropped' = Dropped
    BY <2>1 DEF Free, Dropped
  <2> QED
    BY <1>1, <2>1, <2>2, TillKeeps DEF Formed, AtTheTill
<1> QED
  BY <1>2, <1>3, <1>4, <1>5, <1>6, <1>7

\* Submissions whose dialog is gone: the same ones, none of them open.
Closed(s) == [s EXCEPT !.open = FALSE]

\* A submission that ends leaves the others as they were.
LEMMA ClosedForm ==
  ASSUME NEW s \in Submission
  PROVE  Closed(s) \in Submission /\ Closed(s).body = s.body /\ ~Closed(s).open
  BY DEF Submission, Closed

\* A dialog closed while it records the sale abandons its submission.
LEMMA CloseKeeps ==
  ASSUME CheckoutInv, CloseDialog
  PROVE  CheckoutInv'
<1>1. Formed /\ Written /\ AtTheTill /\ Books /\ Gone
  BY DEF CheckoutInv
<1>2. /\ dialog' = FALSE /\ busy' = FALSE /\ shortfall' = FALSE
      /\ submissions' = {Closed(s) : s \in submissions}
      /\ abandoned' = abandoned \union {s.body.key : s \in submissions}
      /\ UNCHANGED <<counter, cart, amending, keys, calls, sales, corrected, receipts, cancels,
                     unhooked>>
  BY DEF CloseDialog, Closed, tillVars, bookVars
<1>3. /\ submissions' \subseteq Submission
      /\ \A y \in submissions' :
           ~y.open /\ \E x \in submissions : x.body = y.body /\ y = Closed(x)
      /\ \A x \in submissions : \E y \in submissions' : y.body = x.body
  BY <1>1, <1>2, ClosedForm DEF Formed
<1>4. Bodies' \subseteq Bodies
  BY <1>2, <1>3, HeldBodies, NothingNew
<1>5. Free' = Free /\ Dropped' = Dropped
  BY <1>2 DEF Free, Dropped
<1>6. Formed'
  BY <1>1, <1>2, <1>3 DEF Formed
<1>7. Written'
  <2>1. \A k \in abandoned' : k \in Key /\ k <= keys
    BY <1>1, <1>2, HeldBodies, BodyForm DEF Written, Body
  <2> QED
    BY <1>1, <1>2, <1>4, <1>5, <2>1 DEF Written
<1>8. AtTheTill'
  <2>1. ASSUME NEW s \in submissions', NEW t \in submissions', s.body.key = t.body.key
        PROVE  s = t
    <3>1. PICK x \in submissions : x.body = s.body /\ s = Closed(x)
      BY <1>3
    <3>2. PICK y \in submissions : y.body = t.body /\ t = Closed(y)
      BY <1>3
    <3>3. x = y
      BY <1>1, <2>1, <3>1, <3>2 DEF AtTheTill
    <3> QED
      BY <3>1, <3>2, <3>3
  <2>2. \A s \in submissions' : s.body.key \in abandoned'
    BY <1>2, <1>3
  <2> QED
    BY <1>1, <1>2, <1>3, <1>5, <2>1, <2>2 DEF AtTheTill
<1>9. Books'
  BY <1>1, <1>2 DEF Books, OneSalePerPayment, CorrectedOnce, DoneIsRecorded
<1>10. Gone'
  <2>1. \A b : Watched(b)' => Watched(b)
    BY <1>2, <1>3 DEF Watched
  <2> QED
    BY <1>1, <1>2, <1>4, <1>5, <2>1 DEF Gone
<1> QED
  BY <1>6, <1>7, <1>8, <1>9, <1>10 DEF CheckoutInv

\* Whatever was submitted before, and not abandoned, sells other goods.
LEMMA ConfirmKeeps ==
  ASSUME CheckoutInv, keys < MaxSubmissions,
         NEW due \in BOOLEAN, NEW backorder \in BOOLEAN, Confirm(due, backorder)
  PROVE  CheckoutInv'
<1> DEFINE b == [key |-> keys + 1, goods |-> cart, due |-> due,
                 backorder |-> backorder, corrects |-> amending]
           s == [body |-> b, attempt |-> 1, open |-> TRUE, here |-> TRUE]
<1>1. Formed /\ Written /\ AtTheTill /\ Books /\ Gone
  BY DEF CheckoutInv
<1>2. /\ dialog /\ ~busy /\ keys < MaxSubmissions
      /\ submissions' = submissions \union {s} /\ calls' = calls \union {Sent(s)}
      /\ keys' = keys + 1 /\ busy' = TRUE /\ shortfall' = FALSE
      /\ UNCHANGED <<counter, cart, amending, dialog, sales, corrected, receipts, abandoned,
                     cancels, unhooked>>
  BY DEF Confirm, tillVars, bookVars, ghostVars
<1>3. b \in Body /\ b.key = keys + 1 /\ b.goods = cart /\ b.corrects = amending
  BY <1>1, <1>2, CheckoutAssumption DEF Formed, Body, Key
<1> HIDE DEF b
<1>4. /\ s \in Submission /\ s.body = b /\ s.open /\ s.here
      /\ Sent(s) \in Call /\ Sent(s).body = b /\ Sent(s).stage = "sent"
  BY <1>3, CheckoutAssumption DEF Submission, Sent, Call, Stage
<1> HIDE DEF s
<1>5. Bodies' = Bodies \union {b} /\ Free' = Free /\ Dropped' = Dropped
  BY <1>2, <1>4 DEF Bodies, Free, Dropped
<1>6. Formed'
  <2>1. keys' \in 0 .. MaxSubmissions
    BY <1>1, <1>2, CheckoutAssumption DEF Formed
  <2>2. submissions' \subseteq Submission /\ calls' \subseteq Call
    BY <1>1, <1>2, <1>4 DEF Formed
  <2> QED
    BY <1>1, <1>2, <2>1, <2>2 DEF Formed
<1>7. /\ Bodies \subseteq Body /\ keys \in Nat
      /\ \A x \in Bodies : x.key \in Nat /\ x.key <= keys /\ x.key # b.key
      /\ \A k \in receipts \union abandoned : k \in Nat /\ k <= keys /\ k # b.key
  BY <1>1, <1>3, BodyForm DEF Formed, Written, Body, Key
<1>8. Written'
  <2>1. \A x \in Bodies' : x.goods # {} /\ x.key <= keys'
    BY <1>1, <1>2, <1>3, <1>5, <1>7 DEF Written, AtTheTill
  <2>2. \A x \in Bodies' : OldGood \in x.goods => x.corrects \/ Dropped'
    BY <1>1, <1>3, <1>5 DEF Written, AtTheTill
  <2>3. \A x, y \in Bodies' : x.key = y.key => x = y
    BY <1>1, <1>5, <1>7 DEF Written
  <2>4. \A k \in receipts' \union abandoned' : k \in Key /\ k <= keys'
    BY <1>1, <1>2, <1>7 DEF Written
  <2> QED
    BY <2>1, <2>2, <2>3, <2>4 DEF Written
<1>9. \A x \in submissions : ~x.open /\ x.body \in Bodies
  BY <1>1, <1>2, HeldBodies DEF AtTheTill
<1>10. AtTheTill'
  <2>1. \A x, y \in submissions' : x.body.key = y.body.key => x = y
    BY <1>1, <1>2, <1>4, <1>7, <1>9 DEF AtTheTill
  <2>2. /\ \A x, y \in submissions' : x.open /\ y.open => x = y
        /\ \A x \in submissions' : x.open => x.here /\ dialog' /\ busy' /\ x.body.goods = cart'
    BY <1>2, <1>3, <1>4, <1>9
  <2>3. \A x \in submissions' :
          ~x.open => x.body.key \in abandoned' \/ x.body.goods \intersect Free' = {}
    BY <1>1, <1>2, <1>4, <1>5 DEF AtTheTill
  <2> QED
    BY <1>1, <1>2, <1>5, <2>1, <2>2, <2>3 DEF AtTheTill
<1>11. Books'
  BY <1>1, <1>2, <1>4 DEF Books, OneSalePerPayment, CorrectedOnce, DoneIsRecorded
<1>12. Gone'
  <2>1. \A x \in Bodies' :
          x.key \in receipts' /\ x.key \notin abandoned' => x.goods \intersect Free' = {}
    BY <1>1, <1>2, <1>5, <1>7 DEF Gone
  <2>2. \A x \in Bodies : Watched(x)' => Watched(x)
    BY <1>2, <1>4, <1>7 DEF Watched
  <2>3. ASSUME NEW x \in Bodies, Watched(x) PROVE x.goods \intersect cart \subseteq {OldGood}
    <3>1. x.goods \intersect Free = {}
      BY <1>1, <1>9, <2>3 DEF Watched, AtTheTill, Gone
    <3> QED
      BY <3>1 DEF Free
  <2> QED
    BY <1>1, <1>3, <1>5, <2>1, <2>2, <2>3 DEF Gone
<1> QED
  BY <1>6, <1>8, <1>10, <1>11, <1>12 DEF CheckoutInv

---------------------------------------------------------------------------
(* The server.                                                             *)

\* A call that changes its stage keeps its key and its body.
LEMMA StageChange ==
  ASSUME Formed, NEW c \in calls, NEW stage \in Stage, Becomes(c, stage)
  PROVE  /\ calls' \subseteq Call
         /\ \A d \in calls' : d \in calls \/ (d.body = c.body /\ d.stage = stage)
<1> DEFINE d == [c EXCEPT !.stage = stage]
<1>1. d \in Call /\ d.body = c.body /\ d.stage = stage
  BY DEF Formed, Call
<1>2. calls' \subseteq calls \union {d}
  BY DEF Becomes
<1> HIDE DEF d
<1> QED
  BY <1>1, <1>2 DEF Formed

\* A call moved on at the server; what the books gained came with it.
LEMMA ServedKeeps ==
  ASSUME CheckoutInv, NEW c \in calls,
         calls' \subseteq Call, \A d \in calls' : d \in calls \/ d.body = c.body,
         sales' \subseteq SaleRow, \A s \in sales' : s \in sales \/ s.body = c.body,
         corrected' \in BOOLEAN, Books',
         UNCHANGED <<tillVars, dialogVars, keys, submissions, ghostVars>>
  PROVE  CheckoutInv'
<1>1. Formed /\ Written /\ AtTheTill /\ Gone
  BY DEF CheckoutInv
<1>2. UNCHANGED <<counter, cart, amending, dialog, busy, shortfall, keys, submissions,
                  receipts, abandoned, cancels, unhooked>>
  BY DEF tillVars, dialogVars, ghostVars
<1>3. Bodies' \subseteq Bodies
  BY <1>2, HeldBodies, NothingNew
<1>4. Formed'
  BY <1>1, <1>2 DEF Formed
<1>5. Written'
  BY <1>1, <1>2, <1>3 DEF Written, Dropped
<1>6. Free' = Free /\ Dropped' = Dropped
  BY <1>2 DEF Free, Dropped
<1>7. AtTheTill'
  BY <1>1, <1>2, <1>6 DEF AtTheTill
<1>8. \A b : Watched(b)' <=> Watched(b)
  BY <1>2 DEF Watched
<1>9. Gone'
  BY <1>1, <1>2, <1>3, <1>6, <1>8 DEF Gone
<1> QED
  BY <1>4, <1>5, <1>7, <1>9 DEF CheckoutInv

\* The server writes a sale only where neither unique index objects.
LEMMA ServerKeeps ==
  ASSUME CheckoutInv, Server
  PROVE  CheckoutInv'
<1>1. Formed /\ Written /\ Books
  BY DEF CheckoutInv
<1>2. ASSUME NEW c \in calls, Check(c) PROVE CheckoutInv'
  <2>1. UNCHANGED <<tillVars, dialogVars, keys, submissions, bookVars, ghostVars>>
    BY <1>2 DEF Check
  <2>2. PICK stage \in {"refused", "checked", "short"} : Becomes(c, stage)
    BY <1>2 DEF Check
  <2>3. stage \in Stage /\ stage # "ok"
    BY DEF Stage
  <2>4. /\ calls' \subseteq Call
        /\ \A d \in calls' : d \in calls \/ (d.body = c.body /\ d.stage = stage)
    BY <1>1, <2>2, <2>3, StageChange
  <2>5. UNCHANGED <<sales, corrected, receipts>>
    BY <2>1 DEF bookVars, ghostVars
  <2>6. Books'
    BY <1>1, <2>3, <2>4, <2>5 DEF Books, OneSalePerPayment, CorrectedOnce, DoneIsRecorded
  <2> QED
    BY <1>1, <2>1, <2>4, <2>5, <2>6, ServedKeeps DEF Formed
<1>3. ASSUME NEW c \in calls, Commit(c) PROVE CheckoutInv'
  <2>1. UNCHANGED <<tillVars, dialogVars, keys, submissions, ghostVars>>
    BY <1>3 DEF Commit
  <2>2. CASE Becomes(c, "error") /\ UNCHANGED bookVars
    <3>1. /\ calls' \subseteq Call
          /\ \A d \in calls' : d \in calls \/ (d.body = c.body /\ d.stage = "error")
      BY <1>1, <2>2, StageChange DEF Stage
    <3>2. UNCHANGED <<sales, corrected, receipts>>
      BY <2>1, <2>2 DEF bookVars, ghostVars
    <3>3. Books'
      BY <1>1, <3>1, <3>2 DEF Books, OneSalePerPayment, CorrectedOnce, DoneIsRecorded
    <3> QED
      BY <1>1, <2>1, <3>1, <3>2, <3>3, ServedKeeps DEF Formed
  <2>3. CASE /\ ~Collides(c.body)
             /\ sales' = sales \union {[body |-> c.body, attempt |-> c.attempt]}
             /\ corrected' = (corrected \/ c.body.corrects)
             /\ Becomes(c, "ok")
    <3> DEFINE n == [body |-> c.body, attempt |-> c.attempt]
    <3>1. /\ calls' \subseteq Call
          /\ \A d \in calls' : d \in calls \/ (d.body = c.body /\ d.stage = "ok")
      BY <1>1, <2>3, StageChange DEF Stage
    <3>2. n \in SaleRow /\ n.body = c.body /\ c.body \in Body /\ sales' = sales \union {n}
      BY <1>1, <2>3 DEF Formed, Call, SaleRow
    <3> HIDE DEF n
    <3>3. receipts' = receipts /\ corrected' \in BOOLEAN
      BY <1>1, <2>1, <2>3, <3>2 DEF ghostVars, Formed, Body
    <3>4. OneSalePerPayment'
      <4>1. \A s \in sales : s.body.key = c.body.key => s.body = c.body
        BY <1>1, HeldBodies DEF Written
      <4>2. \A s \in sales : s.body.key = c.body.key => ~s.body.due
        BY <2>3 DEF Collides, KeyStored
      <4> QED
        BY <1>1, <3>2, <4>1, <4>2 DEF Books, OneSalePerPayment
    <3>5. CorrectedOnce' /\ \A s \in sales' : s.body.corrects => corrected'
      BY <1>1, <2>3, <3>2 DEF Books, CorrectedOnce, Collides
    <3>6. DoneIsRecorded' /\ \A d \in calls' : d.stage = "ok" => \E s \in sales' : s.body = d.body
      BY <1>1, <3>1, <3>2, <3>3 DEF Books, DoneIsRecorded
    <3>7. Books'
      BY <3>4, <3>5, <3>6 DEF Books
    <3> QED
      BY <1>1, <2>1, <3>1, <3>2, <3>3, <3>7, ServedKeeps DEF Formed
  <2> QED
    BY <1>3, <2>2, <2>3 DEF Commit
<1> QED
  BY <1>2, <1>3 DEF Server

---------------------------------------------------------------------------
(* The client.                                                             *)

\* An attempt that failed: the submission goes on, as itself, or ends.
LEMMA AttemptKeeps ==
  ASSUME CheckoutInv, NEW s \in submissions, NEW new \in SUBSET Submission,
         \A x \in new : x.body = s.body /\ x.open = s.open /\ x.here = s.here,
         \A x, y \in new : x = y,
         submissions' = (submissions \ {s}) \union new,
         calls' \subseteq Call, \A c \in calls' : c \in calls \/ (c.body = s.body /\ c.stage = "sent"),
         busy' \in BOOLEAN, shortfall' \in BOOLEAN,
         busy' # busy => s.open /\ new = {},
         UNCHANGED <<tillVars, dialog, keys, bookVars, ghostVars>>
  PROVE  CheckoutInv'
<1>1. Formed /\ Written /\ AtTheTill /\ Books /\ Gone
  BY DEF CheckoutInv
<1>2. UNCHANGED <<counter, cart, amending, dialog, keys, sales, corrected, receipts, abandoned,
                  cancels, unhooked>>
  BY DEF tillVars, bookVars, ghostVars
<1>3. Bodies' \subseteq Bodies
  BY <1>2, HeldBodies, NothingNew
<1>4. Free' = Free /\ Dropped' = Dropped
  BY <1>2 DEF Free, Dropped
<1>5. Formed'
  BY <1>1, <1>2 DEF Formed
<1>6. Written'
  BY <1>1, <1>2, <1>3, <1>4 DEF Written
<1>7. AtTheTill'
  <2>1. \A x, y \in submissions' : x.body.key = y.body.key => x = y
    BY <1>1 DEF AtTheTill
  <2>2. \A x, y \in submissions' : x.open /\ y.open => x = y
    BY <1>1 DEF AtTheTill
  <2>3. \A x \in submissions' : x.open => x.here /\ dialog' /\ busy' /\ x.body.goods = cart'
    BY <1>1, <1>2 DEF AtTheTill, Formed
  <2>4. \A x \in submissions' :
          ~x.open => x.body.key \in abandoned' \/ x.body.goods \intersect Free' = {}
    BY <1>1, <1>2, <1>4 DEF AtTheTill
  <2> QED
    BY <1>1, <1>2, <1>4, <2>1, <2>2, <2>3, <2>4 DEF AtTheTill
<1>8. Books'
  BY <1>1, <1>2 DEF Books, OneSalePerPayment, CorrectedOnce, DoneIsRecorded
<1>9. \A b : Watched(b)' => Watched(b)
  BY <1>2 DEF Watched
<1>10. Gone'
  BY <1>1, <1>2, <1>3, <1>4, <1>9 DEF Gone
<1> QED
  BY <1>5, <1>6, <1>7, <1>8, <1>10 DEF CheckoutInv

\* A submission that failed is given up, and the dialog may be pressed again.
LEMMA FailedKeeps ==
  ASSUME CheckoutInv, NEW s \in submissions, NEW short \in BOOLEAN, Failed(s, short)
  PROVE  CheckoutInv'
<1> DEFINE new == {}
<1>1. /\ submissions' = (submissions \ {s}) \union new
      /\ calls' \subseteq calls
      /\ busy' = (IF s.open THEN FALSE ELSE busy)
      /\ shortfall' \in {TRUE, shortfall}
      /\ UNCHANGED <<tillVars, dialog, keys, bookVars, ghostVars>>
  BY DEF Failed, Unfinished
<1>2. Formed
  BY DEF CheckoutInv
<1>3. calls' \subseteq Call /\ busy' \in BOOLEAN /\ shortfall' \in BOOLEAN
  BY <1>1, <1>2 DEF Formed
<1>4. /\ \A c \in calls' : c \in calls \/ (c.body = s.body /\ c.stage = "sent")
      /\ busy' # busy => s.open /\ new = {}
  BY <1>1
<1>5. /\ new \in SUBSET Submission
      /\ \A x \in new : x.body = s.body /\ x.open = s.open /\ x.here = s.here
      /\ \A x, y \in new : x = y
  OBVIOUS
<1> HIDE DEF new
<1> QED
  BY <1>1, <1>3, <1>4, <1>5, AttemptKeeps

\* An attempt sent again carries the key and the body of the one before.
LEMMA RetryKeeps ==
  ASSUME CheckoutInv, NEW s \in submissions, Retry(s)
  PROVE  CheckoutInv'
<1>1. CASE ~(s.attempt < MAX_RETRIES)
  BY <1>1, FailedKeeps DEF Retry
<1>2. CASE s.attempt < MAX_RETRIES
  <2> DEFINE again == [s EXCEPT !.attempt = @ + 1]
  <2>1. Formed /\ s \in Submission /\ s.attempt + 1 \in 1 .. MAX_RETRIES
    BY <1>2, CheckoutAssumption DEF CheckoutInv, Formed, Submission
  <2>2. again \in Submission /\ again.body = s.body /\ again.open = s.open /\ again.here = s.here
    BY <2>1 DEF Submission
  <2>3. /\ submissions' = (submissions \ {s}) \union {again}
        /\ calls' = Unfinished(s) \union {Sent(again)}
        /\ UNCHANGED <<tillVars, dialogVars, keys, bookVars, ghostVars>>
    BY <1>2 DEF Retry, SendAgain
  <2> HIDE DEF again
  <2>4. Sent(again) \in Call /\ Sent(again).body = s.body /\ Sent(again).stage = "sent"
    BY <2>2 DEF Sent, Submission, Call, Stage
  <2>5. calls' \subseteq Call /\ \A c \in calls' : c \in calls \/ (c.body = s.body /\ c.stage = "sent")
    BY <2>1, <2>3, <2>4 DEF Unfinished, Formed
  <2>6. /\ UNCHANGED <<tillVars, dialog, busy, shortfall, keys, bookVars, ghostVars>>
        /\ busy' \in BOOLEAN /\ shortfall' \in BOOLEAN
    BY <2>1, <2>3 DEF dialogVars, Formed
  <2> DEFINE new == {again}
  <2>7. /\ new \in SUBSET Submission
        /\ \A x \in new : x.body = s.body /\ x.open = s.open /\ x.here = s.here
        /\ \A x, y \in new : x = y
        /\ submissions' = (submissions \ {s}) \union new
        /\ busy' # busy => s.open /\ new = {}
    BY <2>2, <2>3, <2>6
  <2> HIDE DEF new
  <2> QED
    BY <2>5, <2>6, <2>7, AttemptKeeps
<1> QED
  BY <1>1, <1>2

\* Done: what was sold, and whatever else was in the cart, is neither in the
\* cart nor to be rung any more; or the cart is another register's, which keeps
\* what it has and loses its correction.
LEMMA DoneKeeps ==
  ASSUME CheckoutInv, NEW s \in submissions, NEW c \in calls, Done(s, c)
  PROVE  CheckoutInv'
<1>1. Formed /\ Written /\ AtTheTill /\ Books /\ Gone
  BY DEF CheckoutInv
<1> DEFINE X == submissions \ {s}
<1>2. /\ c.body = s.body /\ c.stage = "ok"
      /\ receipts' = receipts \union {s.body.key}
      /\ amending' = FALSE
      /\ unhooked' = (unhooked \/ (~s.here /\ amending))
      /\ calls' \subseteq calls
      /\ UNCHANGED <<counter, keys, sales, corrected, abandoned, cancels>>
  BY DEF Done, AnswerTo, Unfinished, bookVars
<1>3. \/ /\ cart' = {} /\ dialog' = FALSE /\ busy' = FALSE /\ shortfall' = FALSE
         /\ submissions' = {Closed(x) : x \in X}
      \/ /\ ~s.here /\ submissions' = X
         /\ UNCHANGED <<cart, dialog, busy, shortfall>>
  BY DEF Done, RegisterHears, Closed, dialogVars
<1>4. /\ submissions' \subseteq Submission
      /\ \A y \in submissions' :
           \E x \in X : x.body = y.body /\ (y = Closed(x) \/ y = x)
  BY <1>1, <1>3, ClosedForm DEF Formed
<1>5. Bodies' \subseteq Bodies
  BY <1>2, <1>4, HeldBodies, NothingNew
<1>6. Free' \subseteq Free /\ (Dropped => Dropped')
  BY <1>2, <1>3 DEF Free, Dropped
<1>7. s.body \in Bodies /\ s.body \in Body
  BY <1>1, HeldBodies, BodyForm
<1>8. Formed'
  <2>1. unhooked' \in BOOLEAN /\ amending' \in BOOLEAN
    BY <1>2
  <2>2. dialog' \in BOOLEAN /\ busy' \in BOOLEAN /\ shortfall' \in BOOLEAN /\ cart' \subseteq Good
    BY <1>1, <1>3 DEF Formed
  <2> QED
    BY <1>1, <1>2, <1>4, <2>1, <2>2 DEF Formed
<1>9. Written'
  <2>1. s.body.key \in Key /\ s.body.key <= keys
    BY <1>1, <1>7 DEF Written, Body
  <2> QED
    BY <1>1, <1>2, <1>5, <1>6, <2>1 DEF Written
<1>10. AtTheTill'
  <2>1. /\ counter' \intersect cart' = {} /\ OldGood \notin counter'
        /\ dialog' => cart' # {}
    BY <1>1, <1>2, <1>3 DEF AtTheTill
  <2>2. OldGood \in cart' => amending' \/ Dropped'
    <3>1. CASE cart' = {}
      BY <3>1
    <3>2. CASE ~s.here /\ cart' = cart
      <4>1. CASE amending
        BY <1>2, <3>2, <4>1 DEF Dropped
      <4>2. CASE ~amending
        BY <1>1, <1>6, <3>2, <4>2 DEF AtTheTill
      <4> QED
        BY <4>1, <4>2
    <3> QED
      BY <1>3, <3>1, <3>2
  <2>3. ASSUME NEW a \in submissions', NEW b \in submissions', a.body.key = b.body.key
        PROVE  a = b
    <3>1. PICK x \in X : x.body = a.body /\ (a = Closed(x) \/ a = x)
      BY <1>4
    <3>2. PICK y \in X : y.body = b.body /\ (b = Closed(y) \/ b = y)
      BY <1>4
    <3>3. x = y
      BY <1>1, <2>3, <3>1, <3>2 DEF AtTheTill
    <3>4. CASE submissions' = {Closed(z) : z \in X}
      <4>1. PICK v \in X : a = Closed(v)
        BY <3>4
      <4>2. PICK w \in X : b = Closed(w)
        BY <3>4
      <4>3. v.body = a.body /\ w.body = b.body
        BY <1>1, <4>1, <4>2, ClosedForm DEF Formed
      <4> QED
        BY <1>1, <2>3, <4>1, <4>2, <4>3 DEF AtTheTill
    <3>5. CASE submissions' = X
      BY <1>1, <2>3, <3>5 DEF AtTheTill
    <3> QED
      BY <1>3, <3>4, <3>5
  <2>4. \A a, b \in submissions' : a.open /\ b.open => a = b
    <3>1. CASE submissions' = {Closed(z) : z \in X}
      BY <1>1, <3>1, ClosedForm DEF Formed
    <3>2. CASE submissions' = X
      BY <1>1, <3>2 DEF AtTheTill
    <3> QED
      BY <1>3, <3>1, <3>2
  <2>5. \A y \in submissions' : y.open => y.here /\ dialog' /\ busy' /\ y.body.goods = cart'
    <3>1. CASE submissions' = {Closed(z) : z \in X}
      BY <1>1, <3>1, ClosedForm DEF Formed
    <3>2. CASE submissions' = X /\ UNCHANGED <<cart, dialog, busy, shortfall>>
      BY <1>1, <3>2 DEF AtTheTill
    <3> QED
      BY <1>3, <3>1, <3>2
  <2>6. \A y \in submissions' :
          ~y.open => y.body.key \in abandoned' \/ y.body.goods \intersect Free' = {}
    <3>1. CASE submissions' = {Closed(z) : z \in X} /\ cart' = {}
      <4>1. \A x \in submissions : x.body.key \in abandoned \/ x.body.goods \intersect Free' = {}
        BY <1>1, <1>2, <1>6, <3>1 DEF AtTheTill, Free
      <4> QED
        BY <1>2, <1>4, <4>1
    <3>2. CASE submissions' = X
      BY <1>1, <1>2, <1>6, <3>2 DEF AtTheTill
    <3> QED
      BY <1>3, <3>1, <3>2
  <2> QED
    BY <2>1, <2>2, <2>3, <2>4, <2>5, <2>6 DEF AtTheTill
<1>11. Books'
  <2>1. \E t \in sales : t.body = s.body
    BY <1>1, <1>2 DEF Books
  <2> QED
    BY <1>1, <1>2, <2>1 DEF Books, OneSalePerPayment, CorrectedOnce, DoneIsRecorded
<1>12. s.body.key \in abandoned \/ s.body.goods \intersect Free' = {}
  <2>1. CASE cart' = {}
    BY <1>1, <1>2, <1>6, <2>1 DEF AtTheTill, Free
  <2>2. CASE ~s.here
    BY <1>1, <1>6, <2>2 DEF AtTheTill
  <2> QED
    BY <1>1, <1>3, <2>1, <2>2 DEF AtTheTill
<1>13. Gone'
  <2>1. \A b \in Bodies : b.key = s.body.key => b = s.body
    BY <1>1, <1>7 DEF Written
  <2>2. \A b \in Bodies' :
          b.key \in receipts' /\ b.key \notin abandoned' => b.goods \intersect Free' = {}
    BY <1>1, <1>2, <1>5, <1>6, <1>12, <2>1 DEF Gone
  <2>3. \A b \in Bodies : Watched(b)' => Watched(b)
    BY <1>2, <1>4, <2>1 DEF Watched
  <2> QED
    BY <1>1, <1>5, <2>2, <2>3 DEF Gone
<1> QED
  BY <1>8, <1>9, <1>10, <1>11, <1>13 DEF CheckoutInv

\* Whatever the client hears of a call keeps the invariant.
LEMMA ClientKeeps ==
  ASSUME CheckoutInv, Client
  PROVE  CheckoutInv'
<1>1. ASSUME NEW s \in submissions, NEW c \in calls, Refused(s, c) PROVE CheckoutInv'
  <2>1. (c.stage = "short") \in BOOLEAN /\ Failed(s, c.stage = "short")
    BY <1>1 DEF Refused
  <2> QED
    BY <1>1, <2>1, FailedKeeps
<1> QED
  BY <1>1, DoneKeeps, RetryKeeps DEF Client, Answer, ServerError, Unreachable

---------------------------------------------------------------------------
\* Every step of cashier, client and server keeps the invariant.
LEMMA CheckoutStep == CheckoutInv /\ [CheckoutNext]_vars => CheckoutInv'
<1> SUFFICES ASSUME CheckoutInv, [CheckoutNext]_vars PROVE CheckoutInv'
  OBVIOUS
<1>1. CASE UNCHANGED vars
  <2>1. UNCHANGED <<counter, cart, amending, dialog, busy, shortfall, keys, submissions, calls,
                    bookVars, receipts, abandoned, cancels, unhooked>>
    BY <1>1 DEF vars, tillVars, dialogVars, wireVars, ghostVars
  <2>2. Free' = Free /\ Dropped' = Dropped /\ Formed /\ AtTheTill
    BY <2>1 DEF Free, Dropped, CheckoutInv
  <2> QED
    BY <2>1, <2>2, TillKeeps DEF Formed, AtTheTill
<1>2. CASE Cashier
  BY <1>2, RegisterKeeps, CloseKeeps, ConfirmKeeps DEF Cashier, Rings
<1> QED
  BY <1>1, <1>2, ServerKeeps, ClientKeeps DEF CheckoutNext

\* The inductive invariant: dialog, client, wire and books agree on every
\* submission (CheckoutModal.jsx, client.js, checkout and amend_sale of pos.py).
THEOREM CheckoutInductive == CheckoutSpec => []CheckoutInv
  BY CheckoutInitially, CheckoutStep, PTL DEF CheckoutSpec

\* The states of dialog, client and server are of their types, for any number
\* of submissions and attempts.
THEOREM CheckoutIsTyped == CheckoutSpec => []CheckoutTypeOK
<1>1. CheckoutInv => CheckoutTypeOK
  <2> SUFFICES ASSUME CheckoutInv PROVE CheckoutTypeOK
    OBVIOUS
  <2>1. Formed /\ Written
    BY DEF CheckoutInv
  <2>2. \A s \in submissions : s.body.key \in Key /\ s.attempt \in 1 .. MAX_RETRIES
    BY <2>1 DEF Formed, Submission, Body
  <2>3. \A c \in calls : c.attempt \in 1 .. MAX_RETRIES /\ c.stage \in Stage
    BY <2>1 DEF Formed, Call
  <2>4. \A s \in sales : s.body.goods \subseteq Good /\ s.body.goods # {}
    BY <2>1, HeldBodies DEF Formed, Written, SaleRow, Body
  <2>5. receipts \subseteq Key /\ abandoned \subseteq Key
    BY <2>1 DEF Written
  <2> QED
    BY <2>1, <2>2, <2>3, <2>4, <2>5 DEF CheckoutTypeOK, Formed
<1> QED
  BY <1>1, CheckoutInductive, PTL

\* However often a submission that takes money is sent, and however its calls
\* overlap, the books hold one sale for it.
THEOREM CheckoutOneSalePerPayment == CheckoutSpec => []OneSalePerPayment
<1>1. CheckoutInv => OneSalePerPayment
  BY DEF CheckoutInv, Books
<1> QED
  BY <1>1, CheckoutInductive, PTL

\* An earlier sale is corrected once, whatever was pressed meanwhile.
THEOREM CheckoutCorrectedOnce == CheckoutSpec => []CorrectedOnce
<1>1. CheckoutInv => CorrectedOnce
  BY DEF CheckoutInv, Books
<1> QED
  BY <1>1, CheckoutInductive, PTL

\* No receipt without a sale in the books.
THEOREM CheckoutDoneIsRecorded == CheckoutSpec => []DoneIsRecorded
<1>1. CheckoutInv => DoneIsRecorded
  BY DEF CheckoutInv, Books
<1> QED
  BY <1>1, CheckoutInductive, PTL

\* A cashier who neither leaves a submission nor is told it failed sells each
\* thing once; what was sold before the corrections too, unless one of them was
\* dropped with those goods in the cart.
THEOREM CheckoutTwiceOnlyUnseen == CheckoutSpec => []TwiceOnlyUnseen
<1>1. CheckoutInv => TwiceOnlyUnseen
  <2> SUFFICES ASSUME CheckoutInv, NEW s \in sales, NEW t \in sales,
                      s.body.key # t.body.key,
                      NEW g \in s.body.goods \intersect t.body.goods,
                      ~(s.body.goods \intersect t.body.goods = {OldGood} /\ Dropped),
                      {s.body.key, t.body.key} \intersect abandoned = {},
                      {s.body.key, t.body.key} \subseteq receipts
               PROVE  FALSE
    BY DEF TwiceOnlyUnseen, Dropped
  <2>1. /\ s.body \in Bodies /\ t.body \in Bodies /\ s.body # t.body
        /\ Watched(s.body) /\ Watched(t.body)
    BY HeldBodies DEF Watched
  <2>2. g = OldGood /\ s.body.goods \intersect t.body.goods = {OldGood}
    BY <2>1 DEF CheckoutInv, Gone
  <2>3. s.body.corrects /\ t.body.corrects
    BY <2>1, <2>2 DEF CheckoutInv, Written
  <2> QED
    BY <2>1, <2>3 DEF CheckoutInv, Books, CorrectedOnce
<1> QED
  BY <1>1, CheckoutInductive, PTL
=============================================================================
