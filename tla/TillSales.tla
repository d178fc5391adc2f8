----------------------------- MODULE TillSales -----------------------------
(***************************************************************************)
(* The stock side of a till sale: ringing it (backend/routers/pos.py,      *)
(* _ring_sale) and taking it back off the books (_unwind_sale and          *)
(* backend/sale_reversal.py).  A sale has one stock line.                  *)
(***************************************************************************)
EXTENDS Commitments

CONSTANT WalkIn   \* the client_id NULL of an anonymous sale

ASSUME WalkInIsNobody == WalkIn \notin Client

Buyer == Client \cup {WalkIn}

SaleStatus == {"completed", "returned", "amended"}

\* A row of pos_sales with its line.  `moved` is the net of the stock
\* movements recorded under the sale's invoice.
Sale == [item : Item, client : Buyer, quantity : Nat \ {0},
         status : SaleStatus, moved : Int]

\* Mutant: what is spoken for is sold as well.
SellableOnHand(t, i, c) == t.quantity[i]

\* What may be sold to c: the free stock and what c holds already.
Sellable(t, i, c) == Available(t, i) + HeldFor(t, i, c)

\* How much of q cannot leave today.  It exceeds q when more is spoken for
\* than there is.
Short(t, i, c, q) == AtLeastZero(q - Sellable(t, i, c))

Taken(t, i, c, q) == AtLeastZero(q - Short(t, i, c, q))

\* The refusals of the pre-flight stock check and of the deduction.
CanRing(t, i, c, q, backorder) ==
  /\ backorder => c # WalkIn
  /\ Short(t, i, c, q) > 0 => backorder
  /\ Taken(t, i, c, q) <= t.quantity[i]

\* What is there leaves the shelf and draws the buyer's own holds; the rest
\* is promised.
Ring(t, i, c, q) ==
  LET taken == Taken(t, i, c, q)
      short == Short(t, i, c, q)
      row   == [item |-> i, client |-> c, quantity |-> q,
                status |-> "completed", moved |-> -taken]
      gone  == [t EXCEPT !.quantity[i] = @ - taken, !.sales = Append(@, row)]
      drawn == Consume(gone, i, c, taken, "collected")
  IN  IF short = 0
      THEN drawn
      ELSE Promise(drawn, Len(t.sales) + 1, i, c, Lesser(short, q))

\* The totals over the commitments of one sale line.
Promised(t, s) ==
  SeqSum([k \in DOMAIN t.commitments |->
            IF t.commitments[k].sale = s THEN t.commitments[k].ordered ELSE 0])

HandedOver(t, s) ==
  SeqSum([k \in DOMAIN t.commitments |->
            IF t.commitments[k].sale = s THEN t.commitments[k].fulfilled ELSE 0])

\* delivered_quantity(): what actually left the shelf, which is not what was
\* invoiced.
Delivered(t, s) == t.sales[s].quantity - Promised(t, s) + HandedOver(t, s)

\* Mutant: what was invoiced is put back.
PutBackInvoiced(t, s, q) ==
  [t EXCEPT !.quantity[t.sales[s].item] = @ + t.sales[s].quantity,
            !.sales[s].moved = @ + t.sales[s].quantity]

PutBack(t, s, q) ==
  IF q <= 0
  THEN t
  ELSE [t EXCEPT !.quantity[t.sales[s].item] = @ + q, !.sales[s].moved = @ + q]

\* The goods go back to the shelf before the open promise is cancelled.
Unwind(t, s) == CancelForInvoice(PutBack(t, s, Delivered(t, s)), s)

\* What a sale that stands must have moved: the sum of what left at the till
\* and of every handover since.
NetsOut(t, s) ==
  t.sales[s].moved = IF t.sales[s].status = "completed" THEN -Delivered(t, s) ELSE 0
============================================================================
