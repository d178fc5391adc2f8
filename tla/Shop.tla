------------------------------- MODULE Shop -------------------------------
(***************************************************************************)
(* The shop floor: the requests that move stock between the shelf, the     *)
(* customers' holds and the promises made to them.                         *)
(*                                                                         *)
(*   backend/routers/inventory.py     holds, releases, stock adjustments   *)
(*   backend/routers/pos.py           checkout, return, amendment          *)
(*   backend/routers/invoices.py      voiding the invoice of a till sale   *)
(*   backend/routers/commitments.py   handover, cancellation, allocation   *)
(*   backend/routers/purchases.py     receipt, restatement, void           *)
(*                                                                         *)
(* Each of these handlers runs in one transaction that its last statement  *)
(* commits, and is one action here: what two handlers do to one another    *)
(* between their statements is not a question for this module.  The        *)
(* exception is the receipt of a purchase: update_status commits           *)
(* received_at before it credits the stock, so it is three steps (the      *)
(* check, the commit, the credit) that other requests come between, and    *)
(* the process may die before the last.                                    *)
(***************************************************************************)
EXTENDS TillSales

CONSTANTS Purchase,      \* purchase orders of one line each
          Buys,          \* the item a purchase brings in
          Ordered,       \* the quantity first ordered
          Opening,       \* what is on the shelf at the start
          Quantities,    \* quantities one request may name
          Adjustments,   \* changes one stock adjustment may make
          MaxOnHand,     \* bound: no step takes an item above this
          MaxHolds,      \* bound: rows of stock_reservations
          MaxSales,      \* bound: rows of pos_sales
          MaxRequests    \* bound: concurrent receipts of one purchase

ASSUME ShopAssumption ==
  /\ Buys \in [Purchase -> Item]
  /\ Ordered \in [Purchase -> Nat \ {0}]
  /\ Opening \in [Item -> Nat]
  /\ Quantities \subseteq Nat \ {0}
  /\ Adjustments \subseteq Int
  /\ {MaxOnHand, MaxHolds, MaxSales, MaxRequests} \subseteq Nat

VARIABLES
  quantity,      \* inventory.quantity
  reserved,      \* inventory.reserved_quantity
  holds,         \* stock_reservations
  commitments,   \* sale_commitments
  sales,         \* pos_sales with their lines
  purchases      \* purchases, and the requests that are receiving them

stock == <<quantity, reserved, holds, commitments, sales>>
shopVars == <<stock, purchases>>

\* The stock tables as the record that the operators work on.
Tables == [quantity |-> quantity, reserved |-> reserved, holds |-> holds,
           commitments |-> commitments, sales |-> sales]

WithinBounds(t) ==
  /\ \A i \in Item : t.quantity[i] <= MaxOnHand
  /\ Len(t.holds) <= MaxHolds
  /\ Len(t.sales) <= MaxSales

\* The request commits t.
Commit(t) ==
  /\ WithinBounds(t)
  /\ quantity' = t.quantity
  /\ reserved' = t.reserved
  /\ holds' = t.holds
  /\ commitments' = t.commitments
  /\ sales' = t.sales

\* A purchase.  `checked` and `crediting` count the requests that have found
\* received_at empty, and those that have committed it and have the stock
\* still to credit.  `moved` is the net of the movements under its number.
PurchaseRow ==
  [quantity : Nat \ {0}, received : BOOLEAN, stockUpdated : BOOLEAN,
   booked : BOOLEAN, voided : BOOLEAN, status : {"Ordered", "Received"},
   checked : Nat, crediting : Nat, moved : Int]

ShopInit ==
  /\ quantity = Opening
  /\ reserved = [i \in Item |-> 0]
  /\ holds = <<>>
  /\ commitments = <<>>
  /\ sales = <<>>
  /\ purchases = [p \in Purchase |->
       [quantity |-> Ordered[p], received |-> FALSE, stockUpdated |-> FALSE,
        booked |-> FALSE, voided |-> FALSE, status |-> "Ordered",
        checked |-> 0, crediting |-> 0, moved |-> 0]]
-----------------------------------------------------------------------------
\* Holds and adjustments.

CreateReservation(i, c, q) ==
  /\ CanHold(Tables, i, q)
  /\ Commit(PlaceHold(Tables, i, c, q))
  /\ UNCHANGED purchases

\* Any row may be released, whoever made it; a closed one is left alone.
ReleaseReservation(h) ==
  /\ Commit(Close(Tables, h, "released"))
  /\ UNCHANGED purchases

\* Mutant: an adjustment that is not checked.
AdjustUnchecked(i, delta) ==
  /\ Commit([Tables EXCEPT !.quantity[i] = @ + delta])
  /\ UNCHANGED purchases

\* An adjustment looks at what is there and not at what is spoken for, and
\* does not serve the customers who are waiting.
AdjustStock(i, delta) ==
  /\ quantity[i] + delta >= 0
  /\ Commit([Tables EXCEPT !.quantity[i] = @ + delta])
  /\ UNCHANGED purchases
-----------------------------------------------------------------------------
\* The till.

Checkout(i, c, q, backorder) ==
  /\ CanRing(Tables, i, c, q, backorder)
  /\ Commit(Ring(Tables, i, c, q))
  /\ UNCHANGED purchases

Standing(s) == sales[s].status = "completed"

\* A return, or the void of the invoice: the same goods come back.
UndoSale(s) ==
  /\ Standing(s)
  /\ Commit([Unwind(Tables, s) EXCEPT !.sales[s].status = "returned"])
  /\ UNCHANGED purchases

\* The sale is unwound and rung again in one transaction.  Refused once part
\* of what it promised has been handed over.
AmendSale(s, i, c, q, backorder) ==
  LET undone == [Unwind(Tables, s) EXCEPT !.sales[s].status = "amended"]
  IN  /\ Standing(s)
      /\ HandedOver(Tables, s) = 0
      /\ CanRing(undone, i, c, q, backorder)
      /\ Commit(Ring(undone, i, c, q))
      /\ UNCHANGED purchases
-----------------------------------------------------------------------------
\* Promises.

\* The goods leave, the customer's holds are drawn, the promise is marked.
HandOver(t, k, q) ==
  LET row  == t.commitments[k]
      gone == [t EXCEPT !.quantity[row.item] = @ - q,
                        !.sales[row.sale].moved = @ - q]
  IN  MarkFulfilled(Consume(gone, row.item, row.client, q, "collected"), k, q)

Deliver(k, q) ==
  /\ Awaiting(Tables, k)
  /\ q <= Outstanding(Tables, k)
  /\ q <= commitments[k].allocated
  /\ q <= quantity[commitments[k].item]
  /\ Commit(HandOver(Tables, k, q))
  /\ UNCHANGED purchases

CancelCommitment(k) ==
  /\ Awaiting(Tables, k)
  /\ Commit(Cancel(Tables, k))
  /\ UNCHANGED purchases

AllocateNow(i) ==
  /\ Commit(Allocate(Tables, i))
  /\ UNCHANGED purchases
-----------------------------------------------------------------------------
\* Purchases.

Put(p, row) == purchases' = [purchases EXCEPT ![p] = row]

\* update_status, up to its check of received_at.
BeginReceipt(p) ==
  LET row == purchases[p]
  IN  /\ ~row.voided
      /\ ~row.received
      /\ row.checked + row.crediting < MaxRequests
      /\ Put(p, [row EXCEPT !.checked = @ + 1])
      /\ UNCHANGED stock

\* ... up to the commit of received_at.
MarkReceived(p) ==
  LET row == purchases[p]
  IN  /\ row.checked > 0
      /\ Put(p, [row EXCEPT !.checked = @ - 1, !.crediting = @ + 1, !.received = TRUE])
      /\ UNCHANGED stock

\* Mutant: the customers who are waiting are not served.
LandUnserved(t, p, q) == [t EXCEPT !.quantity[Buys[p]] = @ + q]

\* _credit_stock once it has claimed the header: the goods arrive and the
\* customers who are waiting are served.
Land(t, p, q) ==
  Allocate([t EXCEPT !.quantity[Buys[p]] = @ + q], Buys[p])

\* Mutant: the claim does not look at the flag.
CanClaimAgain(row) == ~row.voided

CanClaim(row) == ~row.stockUpdated /\ ~row.voided

\* ... and the rest of the handler, in a transaction of its own.
CreditStock(p) ==
  LET row  == purchases[p]
      done == [row EXCEPT !.crediting = @ - 1, !.booked = TRUE,
                          !.status = IF row.voided THEN @ ELSE "Received"]
  IN  /\ row.crediting > 0
      /\ \/ /\ CanClaim(row)
            /\ Commit(Land(Tables, p, row.quantity))
            /\ Put(p, [done EXCEPT !.stockUpdated = TRUE, !.moved = @ + row.quantity])
         \/ /\ ~CanClaim(row)
            /\ Put(p, done)
            /\ UNCHANGED stock

\* The process dies, or the database refuses: what was committed stands.
ReceiptDies(p) ==
  LET row == purchases[p]
  IN  /\ row.checked + row.crediting > 0
      /\ \/ row.checked > 0 /\ Put(p, [row EXCEPT !.checked = @ - 1])
         \/ row.crediting > 0 /\ Put(p, [row EXCEPT !.crediting = @ - 1])
      /\ UNCHANGED stock

\* The same request sent again once received_at is set: it books the receipt
\* and does not credit the stock.
RepeatReceipt(p) ==
  LET row == purchases[p]
  IN  /\ ~row.voided
      /\ row.received
      /\ Put(p, [row EXCEPT !.booked = TRUE, !.status = "Received"])
      /\ UNCHANGED stock

\* Mutant: a receipt is taken back whatever became of its goods.
CanTakeBackAlways(row, p) == TRUE

\* _can_reverse: everything the purchase brought in is there and unspoken for.
CanTakeBack(row, p) == row.stockUpdated => row.quantity <= Available(Tables, Buys[p])

TakenBack(t, row, p) ==
  IF row.stockUpdated THEN [t EXCEPT !.quantity[Buys[p]] = @ - row.quantity] ELSE t

\* Correcting the quantity: before the goods have landed the line is just
\* rewritten; afterwards the receipt is taken back and credited again.
RestatePurchase(p, q) ==
  LET row == purchases[p]
      net == IF row.stockUpdated THEN row.moved - row.quantity ELSE row.moved
  IN  /\ ~row.voided
      /\ q # row.quantity
      /\ \/ /\ ~(row.stockUpdated \/ row.booked)
            /\ Put(p, [row EXCEPT !.quantity = q])
            /\ UNCHANGED stock
         \/ /\ row.stockUpdated \/ row.booked
            /\ CanTakeBack(row, p)
            /\ Commit(Land(TakenBack(Tables, row, p), p, q))
            /\ Put(p, [row EXCEPT !.quantity = q, !.stockUpdated = TRUE,
                                  !.booked = row.received, !.moved = net + q])

VoidPurchase(p) ==
  LET row == purchases[p]
  IN  /\ ~row.voided
      /\ CanTakeBack(row, p)
      /\ Commit(TakenBack(Tables, row, p))
      /\ Put(p, [row EXCEPT !.voided = TRUE, !.stockUpdated = FALSE,
                   !.moved = IF row.stockUpdated THEN @ - row.quantity ELSE @])
-----------------------------------------------------------------------------
ShopNext ==
  \/ \E i \in Item, c \in Client, q \in Quantities : CreateReservation(i, c, q)
  \/ \E h \in DOMAIN holds : ReleaseReservation(h)
  \/ \E i \in Item, delta \in Adjustments : AdjustStock(i, delta)
  \/ \E i \in Item, c \in Buyer, q \in Quantities, backorder \in BOOLEAN :
        Checkout(i, c, q, backorder)
  \/ \E s \in DOMAIN sales : UndoSale(s)
  \/ \E s \in DOMAIN sales, i \in Item, c \in Buyer, q \in Quantities,
        backorder \in BOOLEAN : AmendSale(s, i, c, q, backorder)
  \/ \E k \in DOMAIN commitments, q \in Quantities : Deliver(k, q)
  \/ \E k \in DOMAIN commitments : CancelCommitment(k)
  \/ \E i \in Item : AllocateNow(i)
  \/ \E p \in Purchase : BeginReceipt(p)
  \/ \E p \in Purchase : MarkReceived(p)
  \/ \E p \in Purchase : CreditStock(p)
  \/ \E p \in Purchase : ReceiptDies(p)
  \/ \E p \in Purchase : RepeatReceipt(p)
  \/ \E p \in Purchase, q \in Quantities : RestatePurchase(p, q)
  \/ \E p \in Purchase : VoidPurchase(p)

ShopSpec == ShopInit /\ [][ShopNext]_shopVars
-----------------------------------------------------------------------------
(***************************************************************************)
(* Properties.                                                             *)
(***************************************************************************)

\* Every table holds rows of its type.  Counts on the shelf are counts: they
\* cannot go below zero (the module comment of commitments.py).
TypeOK ==
  /\ quantity \in [Item -> Nat]
  /\ reserved \in [Item -> Nat]
  /\ holds \in Seq(Hold)
  /\ commitments \in Seq(Commitment)
  /\ sales \in Seq(Sale)
  /\ purchases \in [Purchase -> PurchaseRow]

\* As long as nothing but the customers' holds writes the counter, it is the
\* sum of the rows that are held, whatever is released, collected, drawn in
\* part or cancelled, and in whatever order (reservations.py, sync).
CounterIsTheHolds ==
  \A i \in Item : reserved[i] = CustomerHeld(Tables, i)

\* A promise never puts aside or hands over more than was ordered, and it is
\* fulfilled exactly when all of it was handed over.
PromisesAddUp ==
  \A k \in DOMAIN commitments :
    LET row == commitments[k]
    IN  /\ row.fulfilled + row.allocated <= row.ordered
        /\ row.status = "fulfilled" <=> row.fulfilled = row.ordered
        /\ row.status # "awaiting" => row.allocated = 0

\* Sold, promised, handed over, cancelled, returned or corrected: the stock
\* movements under a sale's invoice are exactly what its customer holds of it,
\* and nothing when it no longer stands (sale_reversal.py, delivered_quantity).
SaleMovementsNetOut == \A s \in DOMAIN sales : NetsOut(Tables, s)

\* However many requests receive a purchase at once, and whoever corrects or
\* voids it meanwhile, its goods are counted once while they are here and not
\* at all otherwise (purchases.py, the claim in _credit_stock).
ReceiptCountedOnce ==
  \A p \in Purchase :
    purchases[p].moved = IF purchases[p].stockUpdated THEN purchases[p].quantity ELSE 0

\* What everybody but c is holding of item i.
HeldForOthers(t, i, c) == SeqSum(HeldRows(t, i, Client \ {c}))

\* What the shelf has, less what everybody but c is holding, is not below zero.
OthersCovered(t, i, c) == HeldForOthers(t, i, c) <= t.quantity[i]

\* "A customer collecting their own reservation must not be blocked by it, and
\* nobody else may touch it" (reservations.py:88): a sale at the till never
\* leaves the holds of the other customers short of stock they had.
SalesSpareOthersHolds ==
  [][\A s \in DOMAIN sales' :
       s \notin DOMAIN sales =>
         LET i == sales'[s].item
             c == sales'[s].client
         IN  OthersCovered(Tables, i, c) => OthersCovered(Tables', i, c)]_shopVars

\* The same of a handover.
HandoversSpareOthersHolds ==
  [][\A k \in DOMAIN commitments :
       commitments'[k].fulfilled > commitments[k].fulfilled =>
         LET i == commitments[k].item
             c == commitments[k].client
         IN  OthersCovered(Tables, i, c) => OthersCovered(Tables', i, c)]_shopVars

\* Stock that is put aside goes to the oldest promise first: no step serves a
\* promise while an older one of the same item is still left wanting.
OldestPromiseFirst ==
  [][\A k \in DOMAIN commitments : \A j \in 1 .. k - 1 :
       /\ commitments'[k].allocated > commitments[k].allocated
       /\ commitments[j].item = commitments[k].item
       /\ Awaiting(Tables, j)
       => Want(Tables', j) = 0]_shopVars

\* When goods land, whoever is waiting for them is served in the same step:
\* nothing is left free while a promise of that item is left wanting.
ReceiptServesTheWaiting ==
  [][\A p \in Purchase :
       purchases'[p].moved > purchases[p].moved =>
         \A k \in OpenFor(Tables', Buys[p]) :
           Want(Tables', k) = 0 \/ Available(Tables', Buys[p]) <= 0]_shopVars

\* "Received/Paid purchases have updated stock and accounting records"
\* (purchases.py:1010): once no request is at work on it, a purchase that says
\* it was received has had its stock credited.
ReceivedMeansCredited ==
  \A p \in Purchase :
    LET row == purchases[p]
    IN  /\ row.status = "Received"
        /\ ~row.voided
        /\ row.checked + row.crediting = 0
        => row.stockUpdated
============================================================================
