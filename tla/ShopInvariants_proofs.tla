------------------------ MODULE ShopInvariants_proofs ------------------------
(***************************************************************************)
(* The safety invariants and the action properties of the shop floor, for  *)
(* every set of items, customers and purchases and every bound.            *)
(*                                                                         *)
(* An invariant of the stock tables is given as the set G of the tables    *)
(* that have it.  StepKeeps reduces "every step keeps G" to eight facts,   *)
(* one for each thing a request does to the tables; each invariant below   *)
(* is the proof of those eight facts.  An action property is about two     *)
(* states of the tables: Request(t, u) says in one formula what a step may *)
(* make of t, and each of the action properties is read off it.            *)
(***************************************************************************)
EXTENDS Shop_proofs

\* u differs from t in nothing but what is on the shelf.
SameButShelf(t, u) ==
  /\ u.reserved = t.reserved
  /\ u.holds = t.holds
  /\ u.commitments = t.commitments
  /\ u.sales = t.sales

\* A sale taken off the books.
Undone(t, s, status) == [Unwind(t, s) EXCEPT !.sales[s].status = status]

\* What the requests do to the tables, and that it keeps G.
Keeps(G) ==
  /\ \A t \in G, i \in Item, c \in Client, q \in Nat \ {0} :
       CanHold(t, i, q) => PlaceHold(t, i, c, q) \in G
  /\ \A t \in G : \A h \in DOMAIN t.holds : Close(t, h, "released") \in G
  /\ \A t \in G, u \in TablesType : SameButShelf(t, u) => u \in G
  /\ \A t \in G : \A k \in DOMAIN t.commitments : Awaiting(t, k) => Serve(t, k) \in G
  /\ \A t \in G, i \in Item, c \in Buyer, q \in Nat \ {0}, backorder \in BOOLEAN :
       CanRing(t, i, c, q, backorder) => Ring(t, i, c, q) \in G
  /\ \A t \in G : \A s \in DOMAIN t.sales : \A status \in {"returned", "amended"} :
       t.sales[s].status = "completed" => Undone(t, s, status) \in G
  /\ \A t \in G : \A k \in DOMAIN t.commitments : \A q \in Nat \ {0} :
       /\ Awaiting(t, k)
       /\ q <= Outstanding(t, k)
       /\ q <= t.commitments[k].allocated
       /\ q <= t.quantity[t.commitments[k].item]
       => HandOver(t, k, q) \in G
  /\ \A t \in G : \A k \in DOMAIN t.commitments : Awaiting(t, k) => Cancel(t, k) \in G

\* Serving one promise settles none: every status stays what it was.
LEMMA ServeStatus ==
  ASSUME NEW t \in TablesType, NEW k \in DOMAIN t.commitments
  PROVE  /\ Serve(t, k) \in TablesType
         /\ DOMAIN Serve(t, k).commitments = DOMAIN t.commitments
         /\ \A j \in DOMAIN t.commitments :
              Serve(t, k).commitments[j].status = t.commitments[j].status
<1> DEFINE row == t.commitments[k]
           take == Lesser(Want(t, k), Available(t, row.item))
           u == PlaceHold(t, row.item, row.client, take)
<1>1. u.commitments = t.commitments
  <2>1. row.item \in Item
    BY CommitmentRow
  <2> QED BY <2>1, HoldsOnly
<1>2. t.commitments \in Seq(Commitment) /\ row \in Commitment
  BY CommitmentRow DEF TablesType
<1>3. CASE take > 0
  <2> DEFINE n == row.allocated + take
  <2>1. Serve(t, k).commitments = [t.commitments EXCEPT ![k] = [row EXCEPT !.allocated = n]]
    <3>1. Serve(t, k) = [u EXCEPT !.commitments[k].allocated = @ + take]
      BY <1>3 DEF Serve
    <3>2. DOMAIN u = DOMAIN t
      BY DEF PlaceHold, Sync, TablesType
    <3>3. "commitments" \in DOMAIN t
      BY DEF TablesType
    <3> HIDE DEF u, take
    <3> QED BY <1>1, <3>1, <3>2, <3>3
  <2> HIDE DEF n
  <2>2. [row EXCEPT !.allocated = n].status = row.status
    BY <1>2 DEF Commitment
  <2> QED BY <1>2, <2>1, <2>2, ServeType
<1>4. CASE ~(take > 0)
  BY <1>4 DEF Serve
<1> QED BY <1>3, <1>4, ServeType

\* What serving one open promise keeps, serving them all keeps.
LEMMA AllocateKeepsAll ==
  ASSUME NEW G \in SUBSET TablesType, Keeps(G), NEW t \in G, NEW i
  PROVE  Allocate(t, i) \in G
<1> DEFINE H == {x \in G : /\ DOMAIN x.commitments = DOMAIN t.commitments
                           /\ \A j \in DOMAIN t.commitments :
                                x.commitments[j].status = t.commitments[j].status}
<1>1. t \in H
  OBVIOUS
<1>2. ASSUME NEW k \in OpenFor(t, i), NEW x \in H PROVE Serve(x, k) \in H
  <2>1. /\ k \in DOMAIN t.commitments
        /\ t.commitments[k].status = "awaiting"
    BY DEF OpenFor, Awaiting
  <2>2. x \in G /\ x \in TablesType /\ k \in DOMAIN x.commitments /\ Awaiting(x, k)
    BY <2>1 DEF Awaiting
  <2>3. Serve(x, k) \in G
    BY <2>2 DEF Keeps
  <2> QED BY <2>2, <2>3, ServeStatus
<1>3. Allocate(t, i) \in H
  <2> HIDE DEF H
  <2> QED BY <1>1, <1>2, AllocateKeeps
<1> QED BY <1>3

\* Goods that land keep G.
LEMMA LandKeeps ==
  ASSUME NEW G \in SUBSET TablesType, Keeps(G), NEW t \in G, NEW p \in Purchase,
         NEW q \in Nat
  PROVE  Land(t, p, q) \in G
<1> DEFINE u == [t EXCEPT !.quantity[Buys[p]] = @ + q]
<1>1. u \in TablesType
  BY LandType
<1>2. SameButShelf(t, u)
  BY DEF SameButShelf, TablesType
<1>3. u \in G
  <2> HIDE DEF u
  <2> QED BY <1>1, <1>2 DEF Keeps
<1> HIDE DEF u
<1>4. Allocate(u, Buys[p]) \in G
  BY <1>3, AllocateKeepsAll
<1> QED BY <1>4 DEF Land, u

\* What a request makes of the tables t: it holds, releases, sells, takes a sale
\* back, sells it again corrected, hands over or cancels; or it changes what is
\* on the shelf, and may serve those who wait for an item.
Request(t, u) ==
  \/ \E i \in Item, c \in Client, q \in Nat \ {0} :
       CanHold(t, i, q) /\ u = PlaceHold(t, i, c, q)
  \/ \E h \in DOMAIN t.holds : u = Close(t, h, "released")
  \/ u \in TablesType /\ SameButShelf(t, u)
  \/ \E w \in TablesType, i \in Item : SameButShelf(t, w) /\ u = Allocate(w, i)
  \/ \E i \in Item, c \in Buyer, q \in Nat \ {0}, backorder \in BOOLEAN :
       CanRing(t, i, c, q, backorder) /\ u = Ring(t, i, c, q)
  \/ \E s \in DOMAIN t.sales :
       t.sales[s].status = "completed" /\ u = Undone(t, s, "returned")
  \/ \E s \in DOMAIN t.sales, i \in Item, c \in Buyer, q \in Nat \ {0}, backorder \in BOOLEAN :
       /\ t.sales[s].status = "completed"
       /\ CanRing(Undone(t, s, "amended"), i, c, q, backorder)
       /\ u = Ring(Undone(t, s, "amended"), i, c, q)
  \/ \E k \in DOMAIN t.commitments, q \in Nat \ {0} :
       /\ Awaiting(t, k)
       /\ q <= Outstanding(t, k)
       /\ q <= t.commitments[k].allocated
       /\ q <= t.quantity[t.commitments[k].item]
       /\ u = HandOver(t, k, q)
  \/ \E k \in DOMAIN t.commitments : Awaiting(t, k) /\ u = Cancel(t, k)

\* Goods that land are on the shelf before those who wait are served.
LEMMA LandShelf ==
  ASSUME NEW t \in TablesType, NEW p \in Purchase, NEW q \in Nat
  PROVE  \E w \in TablesType : SameButShelf(t, w) /\ Land(t, p, q) = Allocate(w, Buys[p])
<1> DEFINE w == [t EXCEPT !.quantity[Buys[p]] = @ + q]
<1>1. w \in TablesType
  BY LandType
<1>2. SameButShelf(t, w)
  BY DEF SameButShelf, TablesType
<1>3. Land(t, p, q) = Allocate(w, Buys[p])
  BY DEF Land
<1> HIDE DEF w
<1> QED BY <1>1, <1>2, <1>3

\* A receipt that is taken back takes from the shelf.
LEMMA TakenBackShelf ==
  ASSUME TypeOK, NEW p \in Purchase, CanTakeBack(purchases[p], p)
  PROVE  TakenBack(Tables, purchases[p], p) \in TablesType
         /\ SameButShelf(Tables, TakenBack(Tables, purchases[p], p))
<1>1. Tables \in TablesType /\ purchases \in [Purchase -> PurchaseRow]
  BY TablesTyped
<1>2. TakenBack(Tables, purchases[p], p) \in TablesType
  BY <1>1, TakenBackType
<1>3. SameButShelf(Tables, TakenBack(Tables, purchases[p], p))
  BY <1>1 DEF SameButShelf, TakenBack, TablesType
<1> QED BY <1>2, <1>3

\* Every step of the shop is a request, or leaves the tables alone.
LEMMA StepIsRequest ==
  ASSUME TypeOK, [ShopNext]_shopVars, NEW t, NEW u, t = Tables, u = Tables'
  PROVE  Request(t, u)
<1>0. /\ Tables \in TablesType
      /\ purchases \in [Purchase -> PurchaseRow]
      /\ Tables.quantity = quantity /\ Tables.reserved = reserved /\ Tables.holds = holds
      /\ Tables.commitments = commitments /\ Tables.sales = sales
  BY TablesTyped
<1>1. t = Tables /\ u = Tables'
  OBVIOUS
<1>2. ASSUME NEW v \in TablesType, Commit(v) PROVE u = v
  BY <1>1, <1>2, CommitTables
<1>3. ASSUME UNCHANGED stock PROVE Request(t, u)
  <2>1. u = t
    BY <1>1, <1>3 DEF stock, Tables
  <2> QED BY <1>0, <1>1, <2>1 DEF Request, SameButShelf
<1>4. /\ t \in TablesType
      /\ \A q \in Quantities : q \in Nat \ {0}
  BY <1>0, <1>1, ShopAssumption
<1>5. ASSUME NEW i \in Item, NEW c \in Client, NEW q \in Quantities, CreateReservation(i, c, q)
      PROVE  Request(t, u)
  <2>1. CanHold(t, i, q) /\ Commit(PlaceHold(t, i, c, q))
    BY <1>1, <1>5 DEF CreateReservation
  <2>2. u = PlaceHold(t, i, c, q)
    BY <1>2, <1>4, <2>1, PlaceHoldType
  <2> QED BY <1>4, <2>1, <2>2 DEF Request
<1>6. ASSUME NEW h \in DOMAIN holds, ReleaseReservation(h) PROVE Request(t, u)
  <2>1. h \in DOMAIN t.holds /\ Commit(Close(t, h, "released"))
    BY <1>0, <1>1, <1>6 DEF ReleaseReservation
  <2>2. u = Close(t, h, "released")
    BY <1>2, <1>4, <2>1, CloseType DEF HoldStatus
  <2> QED BY <2>1, <2>2 DEF Request
<1>7. ASSUME NEW i \in Item, NEW delta \in Adjustments, AdjustStock(i, delta)
      PROVE  Request(t, u)
  <2> DEFINE v == [t EXCEPT !.quantity[i] = @ + delta]
  <2>1. Commit(v) /\ t.quantity[i] + delta >= 0 /\ delta \in Int
    BY <1>0, <1>1, <1>7, ShopAssumption DEF AdjustStock
  <2>2. v \in TablesType
    BY <1>4, <2>1, ShelfType
  <2>3. SameButShelf(t, v)
    BY <1>4 DEF SameButShelf, TablesType
  <2> HIDE DEF v
  <2>4. u = v
    BY <1>2, <2>1, <2>2
  <2> QED BY <2>2, <2>3, <2>4 DEF Request
<1>8. ASSUME NEW i \in Item, NEW c \in Buyer, NEW q \in Quantities, NEW backorder \in BOOLEAN,
             Checkout(i, c, q, backorder)
      PROVE  Request(t, u)
  <2>1. CanRing(t, i, c, q, backorder) /\ Commit(Ring(t, i, c, q))
    BY <1>1, <1>8 DEF Checkout
  <2>2. u = Ring(t, i, c, q)
    BY <1>2, <1>4, <2>1, RingType
  <2> QED BY <1>4, <2>1, <2>2 DEF Request
<1>9. ASSUME NEW s \in DOMAIN t.sales, NEW status \in SaleStatus
      PROVE  Undone(t, s, status) \in TablesType
  <2>1. Unwind(t, s) \in TablesType
    BY <1>4, UnwindType
  <2>2. s \in Nat
    BY <1>4 DEF TablesType
  <2> QED BY <2>1, <2>2, RestatusType DEF Undone
<1>10. ASSUME NEW s \in DOMAIN sales, UndoSale(s) PROVE Request(t, u)
  <2>1. /\ s \in DOMAIN t.sales /\ t.sales[s].status = "completed"
        /\ Commit(Undone(t, s, "returned"))
    BY <1>0, <1>1, <1>10 DEF UndoSale, Standing, Undone
  <2>2. u = Undone(t, s, "returned")
    BY <1>2, <1>9, <2>1 DEF SaleStatus
  <2> QED BY <2>1, <2>2 DEF Request
<1>11. ASSUME NEW s \in DOMAIN sales, NEW i \in Item, NEW c \in Buyer, NEW q \in Quantities,
              NEW backorder \in BOOLEAN, AmendSale(s, i, c, q, backorder)
       PROVE  Request(t, u)
  <2> DEFINE undone == Undone(t, s, "amended")
  <2>1. s \in DOMAIN t.sales /\ t.sales[s].status = "completed"
    BY <1>0, <1>1, <1>11 DEF AmendSale, Standing
  <2>2. CanRing(undone, i, c, q, backorder) /\ Commit(Ring(undone, i, c, q))
    BY <1>1, <1>11 DEF AmendSale, Undone
  <2>3. undone \in TablesType
    BY <1>9, <2>1 DEF SaleStatus
  <2>4. u = Ring(undone, i, c, q)
    <3> HIDE DEF undone
    <3> QED BY <1>2, <1>4, <2>2, <2>3, RingType
  <2> QED BY <1>4, <2>1, <2>2, <2>4 DEF Request
<1>12. ASSUME NEW k \in DOMAIN commitments, NEW q \in Quantities, Deliver(k, q)
       PROVE  Request(t, u)
  <2>1. /\ k \in DOMAIN t.commitments
        /\ Awaiting(t, k)
        /\ q <= Outstanding(t, k)
        /\ q <= t.commitments[k].allocated
        /\ q <= t.quantity[t.commitments[k].item]
        /\ Commit(HandOver(t, k, q))
    BY <1>0, <1>1, <1>12 DEF Deliver
  <2>2. u = HandOver(t, k, q)
    BY <1>2, <1>4, <2>1, HandOverType
  <2> QED BY <1>4, <2>1, <2>2 DEF Request
<1>13. ASSUME NEW k \in DOMAIN commitments, CancelCommitment(k) PROVE Request(t, u)
  <2>1. k \in DOMAIN t.commitments /\ Awaiting(t, k) /\ Commit(Cancel(t, k))
    BY <1>0, <1>1, <1>13 DEF CancelCommitment
  <2>2. u = Cancel(t, k)
    BY <1>2, <1>4, <2>1, CancelType
  <2> QED BY <2>1, <2>2 DEF Request
<1>14. ASSUME NEW w \in TablesType, NEW i \in Item, SameButShelf(t, w), Commit(Allocate(w, i))
       PROVE  Request(t, u)
  <2>1. u = Allocate(w, i)
    BY <1>2, <1>14, AllocateType
  <2> QED BY <1>14, <2>1 DEF Request
<1>15. ASSUME NEW i \in Item, AllocateNow(i) PROVE Request(t, u)
  <2>1. Commit(Allocate(t, i)) /\ SameButShelf(t, t)
    BY <1>1, <1>15 DEF AllocateNow, SameButShelf
  <2> QED BY <1>4, <1>14, <2>1
<1>16. ASSUME NEW w \in TablesType, SameButShelf(t, w), NEW p \in Purchase, NEW q \in Nat,
              Commit(Land(w, p, q))
       PROVE  Request(t, u)
  <2>1. PICK v \in TablesType : SameButShelf(w, v) /\ Land(w, p, q) = Allocate(v, Buys[p])
    BY LandShelf
  <2>2. SameButShelf(t, v) /\ Buys[p] \in Item
    BY <1>16, <2>1, ShopAssumption DEF SameButShelf
  <2> QED BY <1>14, <1>16, <2>1, <2>2
<1>17. ASSUME NEW p \in Purchase,
              BeginReceipt(p) \/ MarkReceived(p) \/ ReceiptDies(p) \/ RepeatReceipt(p)
       PROVE  Request(t, u)
  BY <1>3, <1>17 DEF BeginReceipt, MarkReceived, ReceiptDies, RepeatReceipt
<1>18. ASSUME NEW p \in Purchase, CreditStock(p) PROVE Request(t, u)
  <2>1. purchases[p].quantity \in Nat /\ SameButShelf(t, t)
    BY <1>0 DEF PurchaseRow, SameButShelf
  <2>2. CASE Commit(Land(Tables, p, purchases[p].quantity))
    BY <1>1, <1>4, <1>16, <2>1, <2>2
  <2> QED BY <1>3, <1>18, <2>2 DEF CreditStock
<1>19. ASSUME NEW p \in Purchase, NEW q \in Quantities, RestatePurchase(p, q)
       PROVE  Request(t, u)
  <2>1. CASE /\ CanTakeBack(purchases[p], p)
             /\ Commit(Land(TakenBack(Tables, purchases[p], p), p, q))
    BY <1>1, <1>4, <1>16, <2>1, TakenBackShelf
  <2> QED BY <1>3, <1>19, <2>1 DEF RestatePurchase
<1>20. ASSUME NEW p \in Purchase, VoidPurchase(p) PROVE Request(t, u)
  <2> DEFINE v == TakenBack(Tables, purchases[p], p)
  <2>1. CanTakeBack(purchases[p], p) /\ Commit(v)
    BY <1>20 DEF VoidPurchase
  <2>2. v \in TablesType /\ SameButShelf(t, v)
    BY <1>1, <2>1, TakenBackShelf
  <2> HIDE DEF v
  <2>3. u = v
    BY <1>2, <2>1, <2>2
  <2> QED BY <2>2, <2>3 DEF Request
<1>21. CASE ShopNext
  BY <1>5, <1>6, <1>7, <1>8, <1>10, <1>11, <1>12, <1>13, <1>15, <1>17, <1>18, <1>19, <1>20,
     <1>21, Zenon DEF ShopNext
<1>22. CASE UNCHANGED shopVars
  BY <1>3, <1>22 DEF shopVars
<1> QED BY <1>21, <1>22

\* Whatever the requests keep, a step of the shop keeps.
LEMMA StepKeeps ==
  ASSUME NEW G \in SUBSET TablesType, Keeps(G), TypeOK, Tables \in G, [ShopNext]_shopVars
  PROVE  Tables' \in G
<1>1. PICK t, u : t = Tables /\ u = Tables'
  OBVIOUS
<1>2. t \in G /\ t \in TablesType /\ Request(t, u)
  BY <1>1, StepIsRequest
<1>3. CASE \E w \in TablesType, i \in Item : SameButShelf(t, w) /\ u = Allocate(w, i)
  <2>1. PICK w \in TablesType, i \in Item : SameButShelf(t, w) /\ u = Allocate(w, i)
    BY <1>3
  <2>2. w \in G
    BY <1>2, <2>1 DEF Keeps
  <2> QED BY <1>1, <2>1, <2>2, AllocateKeepsAll
<1>4. CASE \E s \in DOMAIN t.sales, i \in Item, c \in Buyer, q \in Nat \ {0},
              backorder \in BOOLEAN :
             /\ t.sales[s].status = "completed"
             /\ CanRing(Undone(t, s, "amended"), i, c, q, backorder)
             /\ u = Ring(Undone(t, s, "amended"), i, c, q)
  <2>1. PICK s \in DOMAIN t.sales, i \in Item, c \in Buyer, q \in Nat \ {0},
             backorder \in BOOLEAN :
               /\ t.sales[s].status = "completed"
               /\ CanRing(Undone(t, s, "amended"), i, c, q, backorder)
               /\ u = Ring(Undone(t, s, "amended"), i, c, q)
    BY <1>4
  <2>2. Undone(t, s, "amended") \in G
    BY <1>2, <2>1 DEF Keeps
  <2>3. Ring(Undone(t, s, "amended"), i, c, q) \in G
    BY <2>1, <2>2 DEF Keeps
  <2> QED BY <1>1, <2>1, <2>3
<1>5. ASSUME \/ \E i \in Item, c \in Client, q \in Nat \ {0} :
                  CanHold(t, i, q) /\ u = PlaceHold(t, i, c, q)
             \/ \E h \in DOMAIN t.holds : u = Close(t, h, "released")
             \/ u \in TablesType /\ SameButShelf(t, u)
             \/ \E i \in Item, c \in Buyer, q \in Nat \ {0}, backorder \in BOOLEAN :
                  CanRing(t, i, c, q, backorder) /\ u = Ring(t, i, c, q)
             \/ \E s \in DOMAIN t.sales :
                  t.sales[s].status = "completed" /\ u = Undone(t, s, "returned")
      PROVE  u \in G
  BY <1>2, <1>5 DEF Keeps
<1>6. ASSUME \/ \E k \in DOMAIN t.commitments, q \in Nat \ {0} :
                  /\ Awaiting(t, k)
                  /\ q <= Outstanding(t, k)
                  /\ q <= t.commitments[k].allocated
                  /\ q <= t.quantity[t.commitments[k].item]
                  /\ u = HandOver(t, k, q)
             \/ \E k \in DOMAIN t.commitments : Awaiting(t, k) /\ u = Cancel(t, k)
      PROVE  u \in G
  BY <1>2, <1>6 DEF Keeps
<1> QED BY <1>1, <1>2, <1>3, <1>4, <1>5, <1>6 DEF Request
-----------------------------------------------------------------------------
(***************************************************************************)
(* The counter is the sum of the holds.                                    *)
(***************************************************************************)

\* The counter is what customers hold and what production keeps, p[i] of item i.
Exact(t, p) == \A i \in Item : t.reserved[i] = CustomerHeld(t, i) + p[i]

ExactTables(p) == {t \in TablesType : Exact(t, p)}

\* Rows are all that the customers' holds depend on.
LEMMA HeldByRows ==
  ASSUME NEW t, NEW u, u.holds = t.holds
  PROVE  \A i, who : HeldRows(u, i, who) = HeldRows(t, i, who)
BY DEF HeldRows

\* Tables with the rows and the counter of exact ones are exact.
LEMMA SameExact ==
  ASSUME NEW p \in [Item -> Nat], NEW t \in ExactTables(p), NEW u \in TablesType,
         u.holds = t.holds, u.reserved = t.reserved
  PROVE  u \in ExactTables(p)
BY HeldByRows DEF ExactTables, Exact, CustomerHeld

\* Where the counter is exact production's share of it is what production keeps.
LEMMA NoShare ==
  ASSUME NEW p \in [Item -> Nat], NEW t \in ExactTables(p), NEW i \in Item
  PROVE  ProductionShare(t, i) = p[i]
<1>1. CustomerHeld(t, i) \in Nat
  BY HeldNat DEF CustomerHeld, ExactTables
<1>2. t.reserved[i] = CustomerHeld(t, i) + p[i]
  BY DEF ExactTables, Exact
<1> QED BY <1>1, <1>2 DEF ProductionShare, AtLeastZero

\* Rewriting rows of one item, and the counter of that item from its rows,
\* leaves the counter exact.
LEMMA SyncExact ==
  ASSUME NEW p \in [Item -> Nat], NEW t \in ExactTables(p), NEW rows \in Seq(Hold),
         NEW i \in Item,
         \A j \in Item \ {i} :
           CustomerHeld([t EXCEPT !.holds = rows], j) = CustomerHeld(t, j)
  PROVE  Sync([t EXCEPT !.holds = rows], i, ProductionShare(t, i)) \in ExactTables(p)
<1> DEFINE u == [t EXCEPT !.holds = rows]
           v == Sync(u, i, p[i])
<1>1. t \in TablesType /\ Exact(t, p)
  BY DEF ExactTables
<1>2. u \in TablesType /\ u.holds = rows /\ u.reserved = t.reserved
  BY <1>1 DEF TablesType
<1>3. v \in TablesType
  <2> HIDE DEF u
  <2> QED BY <1>2, SyncType
<1>4. \A j \in Item : CustomerHeld(v, j) = CustomerHeld(u, j)
  <2>1. v.holds = u.holds
    BY <1>1, <1>2 DEF Sync, TablesType
  <2> HIDE DEF u, v
  <2> QED BY <2>1, HeldByRows DEF CustomerHeld
<1>5. \A j \in Item : v.reserved[j] = IF j = i THEN p[i] + CustomerHeld(u, i) ELSE t.reserved[j]
  <2>1. t.reserved \in [Item -> Nat]
    BY <1>1 DEF TablesType
  <2>2. v.reserved = [u.reserved EXCEPT ![i] = p[i] + CustomerHeld(u, i)]
    <3> HIDE DEF u
    <3> QED BY <1>2 DEF Sync, TablesType
  <2> HIDE DEF u, v
  <2> QED BY <1>2, <2>1, <2>2
<1>6. CustomerHeld(u, i) \in Nat
  <2> HIDE DEF u
  <2> QED BY <1>2, HeldNat DEF CustomerHeld
<1>7. Exact(v, p)
  <2>1. \A j \in Item \ {i} : t.reserved[j] = CustomerHeld(u, j) + p[j]
    BY <1>1 DEF Exact
  <2> HIDE DEF u, v
  <2> QED BY <1>4, <1>5, <1>6, <2>1 DEF Exact
<1>8. v \in ExactTables(p)
  <2> HIDE DEF v
  <2> QED BY <1>3, <1>7 DEF ExactTables
<1> QED BY <1>8, NoShare

\* A hold that is placed is counted, for its item and no other.
LEMMA PlaceHoldExact ==
  ASSUME NEW p \in [Item -> Nat], NEW t \in ExactTables(p), NEW i \in Item,
         NEW c \in Client, NEW q \in Nat \ {0}
  PROVE  PlaceHold(t, i, c, q) \in ExactTables(p)
<1> DEFINE row == [item |-> i, client |-> c, quantity |-> q, status |-> "held"]
           rows == Append(t.holds, row)
           u == [t EXCEPT !.holds = rows]
<1>1. t \in TablesType /\ t.holds \in Seq(Hold)
  BY DEF ExactTables, TablesType
<1>2. row \in Hold /\ row.item = i
  BY DEF Hold, HoldStatus
<1>3. rows \in Seq(Hold) /\ u.holds = rows
  <2> HIDE DEF row
  <2> QED BY <1>1, <1>2 DEF TablesType
<1>4. ASSUME NEW j \in Item \ {i} PROVE CustomerHeld(u, j) = CustomerHeld(t, j)
  <2>1. HeldRows(u, j, Client) = Append(HeldRows(t, j, Client), 0)
    <3> HIDE DEF row, u
    <3> QED BY <1>1, <1>2, <1>3, <1>4 DEF HeldRows
  <2>2. HeldRows(t, j, Client) \in Seq(Int)
    BY <1>1, HeldRowsType
  <2>3. SeqSum(Append(HeldRows(t, j, Client), 0)) = SeqSum(HeldRows(t, j, Client)) + 0
    BY <2>2, SumAppend
  <2>4. SeqSum(HeldRows(t, j, Client)) \in Int
    BY <2>2, SumType
  <2> HIDE DEF u
  <2>5. SeqSum(HeldRows(u, j, Client)) = SeqSum(HeldRows(t, j, Client))
    BY <2>1, <2>3, <2>4
  <2> QED BY <2>5 DEF CustomerHeld
<1>5. PlaceHold(t, i, c, q) = Sync(u, i, ProductionShare(t, i))
  BY DEF PlaceHold
<1> HIDE DEF row, rows
<1> QED BY <1>3, <1>4, <1>5, SyncExact

\* So is one that is closed.
LEMMA CloseExact ==
  ASSUME NEW p \in [Item -> Nat], NEW t \in ExactTables(p), NEW h \in DOMAIN t.holds,
         NEW status \in HoldStatus
  PROVE  Close(t, h, status) \in ExactTables(p)
<1> DEFINE row == [t.holds[h] EXCEPT !.status = status]
           rows == [t.holds EXCEPT ![h] = row]
           u == [t EXCEPT !.holds = rows]
           i == t.holds[h].item
<1>1. t \in TablesType /\ t.holds \in Seq(Hold)
  BY DEF ExactTables, TablesType
<1>2. t.holds[h] \in Hold
  BY <1>1
<1>3. row \in Hold /\ i \in Item /\ row.item = i
  BY <1>2 DEF Hold
<1>4. rows \in Seq(Hold)
  <2> HIDE DEF row
  <2> QED BY <1>1, <1>3
<1>5. u.holds = rows
  BY <1>1 DEF TablesType
<1>6. ASSUME NEW j \in Item \ {i} PROVE CustomerHeld(u, j) = CustomerHeld(t, j)
  <2>1. HeldRows(u, j, Client) = HeldRows(t, j, Client)
    <3> HIDE DEF row, u
    <3> QED BY <1>1, <1>3, <1>5, <1>6 DEF HeldRows
  <2> QED BY <2>1 DEF CustomerHeld
<1>7. Close(t, h, status) \in {t, Sync(u, i, ProductionShare(t, i))}
  BY <1>1 DEF Close, TablesType
<1>8. Sync(u, i, ProductionShare(t, i)) \in ExactTables(p)
  <2> HIDE DEF rows, i
  <2> QED BY <1>3, <1>4, <1>6, SyncExact DEF i
<1> QED BY <1>7, <1>8

\* And those that are drawn: a row of another item is not touched.
LEMMA ConsumeExact ==
  ASSUME NEW p \in [Item -> Nat], NEW t \in ExactTables(p), NEW i \in Item, NEW c,
         NEW q \in Int, NEW status \in HoldStatus
  PROVE  Consume(t, i, c, q, status) \in ExactTables(p)
<1> DEFINE rows == [h \in DOMAIN t.holds |-> Draw(t.holds[h], Drawn(t, i, c, q)[h], status)]
           u == [t EXCEPT !.holds = rows]
<1>1. t \in TablesType /\ t.holds \in Seq(Hold)
  BY DEF ExactTables, TablesType
<1>2. rows \in Seq(Hold) /\ u.holds = rows /\ DOMAIN rows = DOMAIN t.holds
  <2>1. rows \in Seq(Hold)
    BY <1>1, DrawnRowsType
  <2>2. DOMAIN rows = DOMAIN t.holds
    OBVIOUS
  <2> HIDE DEF rows
  <2> QED BY <1>1, <2>1, <2>2 DEF TablesType
<1>3. ASSUME NEW j \in Item \ {i} PROVE CustomerHeld(u, j) = CustomerHeld(t, j)
  <2>1. ASSUME NEW h \in DOMAIN t.holds, t.holds[h].item = j
        PROVE  rows[h] = t.holds[h]
    <3>1. h \in 1 .. Len(t.holds)
      BY <1>1
    <3>2. HeldRows(t, i, {c})[h] = 0
      BY <1>3, <2>1 DEF HeldRows
    <3>3. Drawn(t, i, c, q)[h] \in Nat /\ Drawn(t, i, c, q)[h] <= HeldRows(t, i, {c})[h]
      BY <1>1, <3>1, DrawnType
    <3>4. Drawn(t, i, c, q)[h] = 0
      BY <3>2, <3>3
    <3> QED BY <3>4 DEF Draw
  <2>2. ASSUME NEW h \in DOMAIN t.holds, t.holds[h].item # j
        PROVE  rows[h].item # j
    <3>1. t.holds[h] \in Hold
      BY <1>1
    <3>2. rows[h].item = t.holds[h].item
      BY <3>1 DEF Draw, Hold
    <3> QED BY <2>2, <3>2
  <2>3. HeldRows(u, j, Client) = HeldRows(t, j, Client)
    <3> HIDE DEF rows, u
    <3> QED BY <1>1, <1>2, <2>1, <2>2 DEF HeldRows
  <2> QED BY <2>3 DEF CustomerHeld
<1>4. Consume(t, i, c, q, status) \in {t, Sync(u, i, ProductionShare(t, i))}
  BY DEF Consume
<1>5. Sync(u, i, ProductionShare(t, i)) \in ExactTables(p)
  <2> HIDE DEF rows
  <2> QED BY <1>2, <1>3, SyncExact
<1> QED BY <1>4, <1>5

\* The columns of the tables after the operators that leave the rows of holds
\* to others: promises and sales.
LEMMA OtherColumns ==
  ASSUME NEW t \in TablesType
  PROVE  /\ \A s, i, c, q : /\ Promise(t, s, i, c, q).holds = t.holds
                            /\ Promise(t, s, i, c, q).reserved = t.reserved
         /\ \A k, q : /\ MarkFulfilled(t, k, q).holds = t.holds
                      /\ MarkFulfilled(t, k, q).reserved = t.reserved
         /\ \A s, q : /\ PutBack(t, s, q).holds = t.holds
                      /\ PutBack(t, s, q).reserved = t.reserved
                      /\ PutBack(t, s, q).commitments = t.commitments
         /\ \A i, c, q : /\ Gone(t, i, c, q).holds = t.holds
                         /\ Gone(t, i, c, q).reserved = t.reserved
                         /\ Gone(t, i, c, q).commitments = t.commitments
<1>1. \A s, i, c, q : /\ Promise(t, s, i, c, q).holds = t.holds
                      /\ Promise(t, s, i, c, q).reserved = t.reserved
  BY DEF Promise, TablesType
<1>2. \A k, q : /\ MarkFulfilled(t, k, q).holds = t.holds
                /\ MarkFulfilled(t, k, q).reserved = t.reserved
  BY DEF MarkFulfilled, TablesType
<1>3. \A s, q : /\ PutBack(t, s, q).holds = t.holds
                /\ PutBack(t, s, q).reserved = t.reserved
                /\ PutBack(t, s, q).commitments = t.commitments
  BY DEF PutBack, TablesType
<1>4. \A i, c, q : /\ Gone(t, i, c, q).holds = t.holds
                   /\ Gone(t, i, c, q).reserved = t.reserved
                   /\ Gone(t, i, c, q).commitments = t.commitments
  BY DEF Gone, TablesType
<1> QED BY <1>1, <1>2, <1>3, <1>4

\* Cancelling a promise releases what was put aside for it, and the counter
\* stays exact.
LEMMA CancelExact ==
  ASSUME NEW p \in [Item -> Nat], NEW t \in ExactTables(p), NEW k \in DOMAIN t.commitments
  PROVE  Cancel(t, k) \in ExactTables(p)
<1> DEFINE row == t.commitments[k]
           u == Consume(t, row.item, row.client, row.allocated, "released")
<1>1. t \in TablesType
  BY DEF ExactTables
<1>2. row.item \in Item /\ row.allocated \in Int
  BY <1>1, CommitmentRow
<1>3. u \in ExactTables(p)
  BY <1>2, ConsumeExact DEF HoldStatus
<1>4. Cancel(t, k) \in TablesType
  BY <1>1, CancelType
<1>5. Cancel(t, k).holds = u.holds /\ Cancel(t, k).reserved = u.reserved
  <2>1. u \in TablesType
    BY <1>3 DEF ExactTables
  <2> HIDE DEF u
  <2> QED BY <2>1 DEF Cancel, TablesType, u
<1> HIDE DEF u
<1> QED BY <1>3, <1>4, <1>5, SameExact

\* Every request keeps the counter exact.
LEMMA ExactKeeps ==
  ASSUME NEW p \in [Item -> Nat]
  PROVE  Keeps(ExactTables(p))
<1>0. \A t \in ExactTables(p) : t \in TablesType
  BY DEF ExactTables
<1>1. \A t \in ExactTables(p), i \in Item, c \in Client, q \in Nat \ {0} :
        PlaceHold(t, i, c, q) \in ExactTables(p)
  BY PlaceHoldExact
<1>2. \A t \in ExactTables(p) : \A h \in DOMAIN t.holds : Close(t, h, "released") \in ExactTables(p)
  BY CloseExact DEF HoldStatus
<1>3. \A t \in ExactTables(p), u \in TablesType : SameButShelf(t, u) => u \in ExactTables(p)
  BY SameExact DEF SameButShelf
<1>4. ASSUME NEW t \in ExactTables(p), NEW k \in DOMAIN t.commitments
      PROVE  Serve(t, k) \in ExactTables(p)
  <2> DEFINE row == t.commitments[k]
             take == Lesser(Want(t, k), Available(t, row.item))
             u == PlaceHold(t, row.item, row.client, take)
  <2>1. Serve(t, k) \in TablesType
    BY <1>0, ServeType
  <2>2. CASE take > 0
    <3>1. row.item \in Item /\ row.client \in Client
      BY <1>0, CommitmentRow
    <3>2. take \in Nat \ {0}
      <4>1. Want(t, k) \in Int
        <5>1. row.ordered \in Nat /\ row.fulfilled \in Nat /\ row.allocated \in Nat
          BY <1>0, CommitmentRow
        <5> QED BY <5>1 DEF Want, Outstanding
      <4>2. Available(t, row.item) \in Int
        BY <1>0, <3>1 DEF Available, TablesType
      <4>3. take \in Int
        BY <4>1, <4>2 DEF Lesser
      <4> HIDE DEF take
      <4> QED BY <2>2, <4>3
    <3>3. u \in ExactTables(p)
      <4> HIDE DEF take
      <4> QED BY <3>1, <3>2, PlaceHoldExact
    <3>4. Serve(t, k) = [u EXCEPT !.commitments[k].allocated = @ + take]
      BY <2>2 DEF Serve
    <3>5. Serve(t, k).holds = u.holds /\ Serve(t, k).reserved = u.reserved
      <4>1. u \in TablesType
        BY <1>0, <3>3
      <4> HIDE DEF u, take
      <4> QED BY <3>4, <4>1 DEF TablesType
    <3> HIDE DEF u
    <3> QED BY <2>1, <3>3, <3>5, SameExact
  <2>3. CASE ~(take > 0)
    BY <2>3 DEF Serve
  <2> QED BY <2>2, <2>3
<1>5. ASSUME NEW t \in ExactTables(p), NEW i \in Item, NEW c \in Buyer, NEW q \in Nat \ {0},
             NEW backorder \in BOOLEAN, CanRing(t, i, c, q, backorder)
      PROVE  Ring(t, i, c, q) \in ExactTables(p)
  <2>1. Gone(t, i, c, q) \in ExactTables(p)
    BY <1>0, <1>5, GoneType, OtherColumns, SameExact
  <2>2. Drawing(t, i, c, q) \in ExactTables(p)
    <3>1. Taken(t, i, c, q) \in Int
      BY <1>0, TakenType
    <3> QED BY <2>1, <3>1, ConsumeExact DEF Drawing, HoldStatus
  <2>3. Ring(t, i, c, q) \in TablesType
    BY <1>0, <1>5, RingType
  <2>4. \/ Ring(t, i, c, q) = Drawing(t, i, c, q)
        \/ Ring(t, i, c, q) = Promise(Drawing(t, i, c, q), Len(t.sales) + 1, i, c,
                                      Lesser(Short(t, i, c, q), q))
    BY <1>0, <1>5, RingParts
  <2> QED BY <1>0, <2>2, <2>3, <2>4, OtherColumns, SameExact
<1>6. ASSUME NEW t \in ExactTables(p), NEW s \in DOMAIN t.sales,
             NEW status \in {"returned", "amended"}
      PROVE  Undone(t, s, status) \in ExactTables(p)
  <2> DEFINE back == PutBack(t, s, Delivered(t, s))
  <2>1. back \in ExactTables(p)
    <3>1. back \in TablesType
      BY <1>0, DeliveredType, PutBackType
    <3> QED BY <1>0, <3>1, OtherColumns, SameExact
  <2>2. Unwind(t, s) \in ExactTables(p)
    <3>1. CancelForInvoice(back, s) \in ExactTables(p)
      <4> HIDE DEF back
      <4> QED BY <2>1, CancelForInvoiceCases, CancelExact
    <3> QED BY <3>1 DEF Unwind
  <2>3. Undone(t, s, status) \in TablesType
    <3>1. s \in Nat
      BY <1>0 DEF TablesType
    <3> QED BY <1>0, <2>2, <3>1, RestatusType DEF Undone, SaleStatus
  <2>4. /\ Undone(t, s, status).holds = Unwind(t, s).holds
        /\ Undone(t, s, status).reserved = Unwind(t, s).reserved
    BY <1>0, <2>2 DEF Undone, TablesType
  <2> QED BY <2>2, <2>3, <2>4, SameExact
<1>7. ASSUME NEW t \in ExactTables(p), NEW k \in DOMAIN t.commitments, NEW q \in Nat \ {0},
             q <= t.quantity[t.commitments[k].item]
      PROVE  HandOver(t, k, q) \in ExactTables(p)
  <2> DEFINE row  == t.commitments[k]
             gone == [t EXCEPT !.quantity[row.item] = @ - q, !.sales[row.sale].moved = @ - q]
             u == Consume(gone, row.item, row.client, q, "collected")
  <2>1. gone \in TablesType
    BY <1>0, <1>7, DepartedType
  <2>2. gone.holds = t.holds /\ gone.reserved = t.reserved
    BY <1>0 DEF TablesType
  <2>3. gone \in ExactTables(p)
    <3> HIDE DEF gone
    <3> QED BY <2>1, <2>2, SameExact
  <2>4. u \in ExactTables(p)
    <3>1. row.item \in Item
      BY <1>0, CommitmentRow
    <3> HIDE DEF gone
    <3> QED BY <2>3, <3>1, ConsumeExact DEF HoldStatus
  <2>5. HandOver(t, k, q) \in TablesType
    BY <1>0, <1>7, HandOverType
  <2>6. HandOver(t, k, q) = MarkFulfilled(u, k, q)
    BY DEF HandOver
  <2> HIDE DEF u
  <2> QED BY <1>0, <2>4, <2>5, <2>6, OtherColumns, SameExact
<1>8. \A t \in ExactTables(p) : \A k \in DOMAIN t.commitments : Cancel(t, k) \in ExactTables(p)
  BY CancelExact
<1> QED BY <1>1, <1>2, <1>3, <1>4, <1>5, <1>6, <1>7, <1>8 DEF Keeps

\* As long as nothing but the customers' holds writes the counter, it is the
\* sum of the rows that are held: inventory.reserved_quantity never drifts from
\* stock_reservations, whatever is released, collected, drawn in part, served
\* or cancelled, and in whatever order.
THEOREM ShopCounterIsTheHolds == ShopSpec => []CounterIsTheHolds
<1> DEFINE none == [i \in Item |-> 0]
<1>0. PICK p \in [Item -> Nat] : p = none
  OBVIOUS
<1>1. ShopInit => Tables \in ExactTables(p)
  <2> SUFFICES ASSUME ShopInit PROVE Tables \in ExactTables(p)
    OBVIOUS
  <2>1. Tables \in TablesType
    BY ShopAssumption DEF ShopInit, Tables, TablesType
  <2>2. ASSUME NEW i \in Item PROVE Tables.reserved[i] = CustomerHeld(Tables, i) + p[i]
    <3>1. HeldRows(Tables, i, Client) \in Seq(Int) /\ Len(HeldRows(Tables, i, Client)) = 0
      BY <2>1, HeldRowsType DEF ShopInit, Tables
    <3>2. SeqSum(HeldRows(Tables, i, Client)) = 0
      BY <3>1, SumToDef DEF SeqSum
    <3>3. Tables.reserved[i] = 0 /\ p[i] = 0
      BY <1>0 DEF ShopInit, Tables
    <3> QED BY <3>2, <3>3 DEF CustomerHeld
  <2> QED BY <2>1, <2>2 DEF ExactTables, Exact
<1>2. TypeOK /\ Tables \in ExactTables(p) /\ [ShopNext]_shopVars => (Tables \in ExactTables(p))'
  <2>1. ExactTables(p) \in SUBSET TablesType
    BY DEF ExactTables
  <2>2. Keeps(ExactTables(p))
    BY ExactKeeps
  <2> QED BY <2>1, <2>2, StepKeeps
<1>3. Tables \in ExactTables(p) => CounterIsTheHolds
  <2> SUFFICES ASSUME Tables \in ExactTables(p), NEW i \in Item
               PROVE  reserved[i] = CustomerHeld(Tables, i)
    BY DEF CounterIsTheHolds
  <2>1. Tables \in TablesType /\ reserved[i] = CustomerHeld(Tables, i) + p[i]
    BY DEF ExactTables, Exact, Tables
  <2>2. CustomerHeld(Tables, i) \in Nat
    BY <2>1, HeldNat DEF CustomerHeld
  <2> QED BY <1>0, <2>1, <2>2
<1> QED BY <1>1, <1>2, <1>3, ShopTypeOK, PTL DEF ShopSpec
-----------------------------------------------------------------------------
(***************************************************************************)
(* Promises add up.                                                        *)
(***************************************************************************)

\* The row of a promise that adds up.
Sound(row) ==
  /\ row.fulfilled + row.allocated <= row.ordered
  /\ row.status = "fulfilled" <=> row.fulfilled = row.ordered
  /\ row.status # "awaiting" => row.allocated = 0

SoundTables == {t \in TablesType : \A k \in DOMAIN t.commitments : Sound(t.commitments[k])}

\* Tables with the promises of sound ones are sound.
LEMMA SameSound ==
  ASSUME NEW t \in SoundTables, NEW u \in TablesType, u.commitments = t.commitments
  PROVE  u \in SoundTables
BY DEF SoundTables

\* Rewriting a promise by a sound row keeps the others as they are.
LEMMA SoundRow ==
  ASSUME NEW t \in SoundTables, NEW k \in DOMAIN t.commitments,
         NEW row \in Commitment, Sound(row)
  PROVE  [t EXCEPT !.commitments[k] = row] \in SoundTables
<1> DEFINE u == [t EXCEPT !.commitments[k] = row]
<1>1. t \in TablesType /\ t.commitments \in Seq(Commitment)
  BY DEF SoundTables, TablesType
<1>2. u \in TablesType
  BY <1>1, CommitmentRow
<1>3. u.commitments = [t.commitments EXCEPT ![k] = row]
  BY <1>1 DEF TablesType
<1>4. \A j \in DOMAIN t.commitments : Sound(t.commitments[j])
  BY DEF SoundTables
<1> HIDE DEF u
<1>5. \A j \in DOMAIN u.commitments : Sound(u.commitments[j])
  BY <1>1, <1>3, <1>4
<1> QED BY <1>2, <1>5 DEF SoundTables, u

\* What a sound promise says.
LEMMA SoundSays ==
  ASSUME NEW t \in SoundTables, NEW k \in DOMAIN t.commitments
  PROVE  /\ t \in TablesType
         /\ Sound(t.commitments[k])
         /\ t.commitments[k] \in Commitment
         /\ t.commitments[k].item \in Item
         /\ t.commitments[k].client \in Client
         /\ t.commitments[k].ordered \in Nat \ {0}
         /\ t.commitments[k].fulfilled \in Nat
         /\ t.commitments[k].allocated \in Nat
BY CommitmentRow DEF SoundTables

\* A promise that is cancelled keeps nothing aside.
LEMMA CancelSound ==
  ASSUME NEW t \in SoundTables, NEW k \in DOMAIN t.commitments, Awaiting(t, k)
  PROVE  Cancel(t, k) \in SoundTables
<1> DEFINE row == t.commitments[k]
           u == Consume(t, row.item, row.client, row.allocated, "released")
           gone == [row EXCEPT !.status = "cancelled", !.allocated = 0]
<1>1. /\ t \in TablesType /\ Sound(row) /\ row \in Commitment /\ row.item \in Item
      /\ row.allocated \in Nat /\ row.ordered \in Nat /\ row.fulfilled \in Nat
  BY SoundSays
<1>2. u \in TablesType /\ u.commitments = t.commitments
  <2>1. u \in TablesType
    BY <1>1, ConsumeType DEF HoldStatus
  <2> QED BY <1>1, <2>1, HoldsOnly
<1>3. u \in SoundTables
  <2> HIDE DEF u
  <2> QED BY <1>2, SameSound
<1>4. gone \in Commitment
  BY <1>1 DEF Commitment, CommitmentStatus
<1>5. Sound(gone)
  BY <1>1 DEF Sound, Awaiting, Commitment
<1>6. Cancel(t, k) = [u EXCEPT !.commitments[k] = gone]
  BY DEF Cancel
<1> HIDE DEF u, gone
<1> QED BY <1>2, <1>3, <1>4, <1>5, <1>6, SoundRow

\* A promise is served no more than it still wants.
LEMMA ServeSound ==
  ASSUME NEW t \in SoundTables, NEW k \in DOMAIN t.commitments, Awaiting(t, k)
  PROVE  Serve(t, k) \in SoundTables
<1> DEFINE row  == t.commitments[k]
           take == Lesser(Want(t, k), Available(t, row.item))
           u    == PlaceHold(t, row.item, row.client, take)
           n    == row.allocated + take
           more == [row EXCEPT !.allocated = n]
<1>1. /\ t \in TablesType /\ Sound(row) /\ row \in Commitment /\ row.item \in Item
      /\ row.client \in Client
      /\ row.allocated \in Nat /\ row.ordered \in Nat /\ row.fulfilled \in Nat
  BY SoundSays
<1>2. /\ take \in Int
      /\ take <= row.ordered - row.fulfilled - row.allocated
  <2>1. Want(t, k) = row.ordered - row.fulfilled - row.allocated
    BY DEF Want, Outstanding
  <2>2. Available(t, row.item) \in Int
    BY <1>1 DEF Available, TablesType
  <2> QED BY <1>1, <2>1, <2>2 DEF Lesser
<1>3. CASE take > 0
  <2>1. take \in Nat \ {0}
    <3> HIDE DEF take
    <3> QED BY <1>2, <1>3
  <2>2. u \in TablesType /\ u.commitments = t.commitments
    <3>1. u \in TablesType
      <4> HIDE DEF take
      <4> QED BY <1>1, <2>1, PlaceHoldType
    <3> QED BY <1>1, <3>1, HoldsOnly
  <2>3. u \in SoundTables
    <3> HIDE DEF u
    <3> QED BY <2>2, SameSound
  <2>4. n \in Nat /\ n <= row.ordered - row.fulfilled
    <3> HIDE DEF take
    <3> QED BY <1>1, <1>2, <2>1
  <2>5. more \in Commitment /\ Sound(more)
    <3> HIDE DEF n
    <3> QED BY <1>1, <2>4 DEF Commitment, Sound, Awaiting
  <2>6. Serve(t, k) = [u EXCEPT !.commitments[k] = more]
    BY <1>3, <2>2 DEF Serve
  <2> HIDE DEF u, more
  <2> QED BY <2>2, <2>3, <2>5, <2>6, SoundRow
<1>4. CASE ~(take > 0)
  BY <1>4 DEF Serve
<1> QED BY <1>3, <1>4

\* A handover takes from what was put aside, and settles the promise exactly
\* when it hands over the last of it.
LEMMA HandOverSound ==
  ASSUME NEW t \in SoundTables, NEW k \in DOMAIN t.commitments, NEW q \in Nat \ {0},
         Awaiting(t, k),
         q <= Outstanding(t, k),
         q <= t.commitments[k].allocated,
         q <= t.quantity[t.commitments[k].item]
  PROVE  HandOver(t, k, q) \in SoundTables
<1> DEFINE row  == t.commitments[k]
           gone == [t EXCEPT !.quantity[row.item] = @ - q, !.sales[row.sale].moved = @ - q]
           u    == Consume(gone, row.item, row.client, q, "collected")
           done == row.fulfilled + q
           left == AtLeastZero(row.allocated - q)
           a == [row EXCEPT !.fulfilled = row.ordered, !.allocated = left, !.status = "fulfilled"]
           b == [row EXCEPT !.fulfilled = done, !.allocated = left]
<1>1. /\ t \in TablesType /\ Sound(row) /\ row \in Commitment /\ row.item \in Item
      /\ row.allocated \in Nat /\ row.ordered \in Nat /\ row.fulfilled \in Nat
  BY SoundSays
<1>2. u \in TablesType /\ u.commitments = t.commitments
  <2>1. gone \in TablesType
    BY <1>1, DepartedType
  <2>2. gone.commitments = t.commitments
    BY <1>1 DEF TablesType
  <2> HIDE DEF gone
  <2>3. u \in TablesType
    BY <1>1, <2>1, ConsumeType DEF HoldStatus
  <2>4. u.commitments = gone.commitments
    BY <1>1, <2>1, HoldsOnly
  <2> QED BY <2>2, <2>3, <2>4
<1>3. u \in SoundTables
  <2> HIDE DEF u
  <2> QED BY <1>2, SameSound
<1>4. /\ left = row.allocated - q /\ left \in Nat
      /\ done \in Nat /\ done <= row.ordered
      /\ done + left <= row.ordered
  <2>1. q <= row.ordered - row.fulfilled
    BY DEF Outstanding
  <2>2. left = row.allocated - q
    BY <1>1 DEF AtLeastZero
  <2> HIDE DEF left
  <2> QED BY <1>1, <2>1, <2>2 DEF Sound
<1>5. ASSUME done >= row.ordered PROVE a \in Commitment /\ Sound(a)
  <2>1. done = row.ordered /\ left = 0
    <3> HIDE DEF left, done
    <3> QED BY <1>1, <1>4, <1>5
  <2>2. /\ a.fulfilled = row.ordered /\ a.allocated = left /\ a.status = "fulfilled"
        /\ a.ordered = row.ordered
    <3> HIDE DEF left, done
    <3> QED BY <1>1 DEF Commitment
  <2>3. Sound(a)
    <3> HIDE DEF left, done, a
    <3> QED BY <1>1, <2>1, <2>2 DEF Sound
  <2>4. left \in Nat
    BY <1>4
  <2>5. a \in Commitment
    <3> HIDE DEF left, done
    <3> QED BY <1>1, <2>4 DEF Commitment, CommitmentStatus
  <2> QED BY <2>3, <2>5
<1>6. ASSUME ~(done >= row.ordered) PROVE b \in Commitment /\ Sound(b)
  <2>1. done # row.ordered
    <3> HIDE DEF left, done
    <3> QED BY <1>1, <1>4, <1>6
  <2>2. row.status = "awaiting"
    BY DEF Awaiting
  <2> HIDE DEF left, done
  <2> QED BY <1>1, <1>4, <2>1, <2>2 DEF Commitment, Sound
<1>7. HandOver(t, k, q) = [u EXCEPT !.commitments[k] = IF done >= row.ordered THEN a ELSE b]
  <2>1. HandOver(t, k, q) = MarkFulfilled(u, k, q)
    BY DEF HandOver
  <2> HIDE DEF u
  <2> QED BY <1>2, <2>1 DEF MarkFulfilled
<1> HIDE DEF u, a, b, done
<1> QED BY <1>2, <1>3, <1>5, <1>6, <1>7, SoundRow

\* A sale promises what is short, and nothing of it is handed over yet.
LEMMA RingSound ==
  ASSUME NEW t \in SoundTables, NEW i \in Item, NEW c \in Buyer, NEW q \in Nat \ {0},
         NEW backorder \in BOOLEAN, CanRing(t, i, c, q, backorder)
  PROVE  Ring(t, i, c, q) \in SoundTables
<1> DEFINE u == Drawing(t, i, c, q)
           n == Lesser(Short(t, i, c, q), q)
           row == [sale |-> Len(t.sales) + 1, item |-> i, client |-> c, ordered |-> n,
                   fulfilled |-> 0, allocated |-> 0, status |-> "awaiting"]
<1>1. t \in TablesType
  BY DEF SoundTables
<1>2. u \in TablesType /\ Ring(t, i, c, q) \in TablesType
  BY <1>1, RingType
<1>3. u.commitments = t.commitments
  <2>1. Gone(t, i, c, q) \in TablesType /\ Gone(t, i, c, q).commitments = t.commitments
    BY <1>1, GoneType, OtherColumns
  <2> QED BY <2>1, HoldsOnly DEF Drawing
<1>4. u \in SoundTables
  <2> HIDE DEF u
  <2> QED BY <1>2, <1>3, SameSound
<1>5. CASE Ring(t, i, c, q) = u
  BY <1>4, <1>5
<1>6. CASE Ring(t, i, c, q) # u
  <2>1. n \in Nat \ {0} /\ Ring(t, i, c, q) = Promise(u, Len(t.sales) + 1, i, c, n)
    BY <1>1, <1>6, RingParts
  <2> HIDE DEF u, n
  <2>2. Ring(t, i, c, q).commitments = Append(t.commitments, row)
    BY <1>2, <1>3, <2>1 DEF Promise, TablesType
  <2>3. Sound(row)
    BY <2>1 DEF Sound
  <2>4. \A k \in DOMAIN t.commitments : Sound(t.commitments[k])
    BY DEF SoundTables
  <2>5. t.commitments \in Seq(Commitment)
    BY <1>1 DEF TablesType
  <2> HIDE DEF row
  <2>6. \A k \in DOMAIN Append(t.commitments, row) : Sound(Append(t.commitments, row)[k])
    BY <2>3, <2>4, <2>5
  <2> QED BY <1>2, <2>2, <2>6 DEF SoundTables
<1> QED BY <1>5, <1>6

\* Taking a sale off the books cancels its promise or leaves it as it is.
LEMMA UndoneSound ==
  ASSUME NEW t \in SoundTables, NEW s \in DOMAIN t.sales, NEW status \in SaleStatus
  PROVE  Undone(t, s, status) \in SoundTables
<1> DEFINE back == PutBack(t, s, Delivered(t, s))
<1>1. t \in TablesType
  BY DEF SoundTables
<1>2. back \in SoundTables
  <2>1. back \in TablesType
    BY <1>1, DeliveredType, PutBackType
  <2> QED BY <1>1, <2>1, OtherColumns, SameSound
<1>3. Unwind(t, s) \in SoundTables
  <2>1. CancelForInvoice(back, s) \in SoundTables
    <3> HIDE DEF back
    <3> QED BY <1>2, CancelForInvoiceCases, CancelSound
  <2> QED BY <2>1 DEF Unwind
<1>4. Unwind(t, s) \in TablesType
  BY <1>3 DEF SoundTables
<1>5. Undone(t, s, status) \in TablesType
  <2>1. s \in Nat
    BY <1>1 DEF TablesType
  <2> QED BY <1>4, <2>1, RestatusType DEF Undone
<1>6. Undone(t, s, status).commitments = Unwind(t, s).commitments
  BY <1>4 DEF Undone, TablesType
<1> QED BY <1>3, <1>5, <1>6, SameSound

\* Every request keeps the promises adding up.
LEMMA SoundKeeps == Keeps(SoundTables)
<1>0. \A t \in SoundTables : t \in TablesType
  BY DEF SoundTables
<1>1. ASSUME NEW t \in SoundTables, NEW i \in Item, NEW c \in Client, NEW q \in Nat \ {0}
      PROVE  PlaceHold(t, i, c, q) \in SoundTables
  <2>1. PlaceHold(t, i, c, q) \in TablesType /\ PlaceHold(t, i, c, q).commitments = t.commitments
    <3>1. PlaceHold(t, i, c, q) \in TablesType
      BY <1>0, PlaceHoldType
    <3> QED BY <1>0, <3>1, HoldsOnly
  <2> QED BY <2>1, SameSound
<1>2. ASSUME NEW t \in SoundTables, NEW h \in DOMAIN t.holds
      PROVE  Close(t, h, "released") \in SoundTables
  <2>1. Close(t, h, "released") \in TablesType
    BY <1>0, CloseType DEF HoldStatus
  <2>2. Close(t, h, "released").commitments = t.commitments
    BY <1>0 DEF Close, Sync, TablesType
  <2> QED BY <2>1, <2>2, SameSound
<1>3. \A t \in SoundTables, u \in TablesType : SameButShelf(t, u) => u \in SoundTables
  BY SameSound DEF SameButShelf
<1> QED
  BY <1>1, <1>2, <1>3, ServeSound, RingSound, UndoneSound, HandOverSound, CancelSound
     DEF Keeps, SaleStatus

\* Nothing is promised at the start.
LEMMA ShopInitSound == ShopInit => Tables \in SoundTables
<1> SUFFICES ASSUME ShopInit PROVE Tables \in SoundTables
  OBVIOUS
<1>1. Tables \in TablesType
  BY ShopAssumption DEF ShopInit, Tables, TablesType
<1>2. DOMAIN Tables.commitments = {}
  BY DEF ShopInit, Tables
<1> QED BY <1>1, <1>2 DEF SoundTables

\* A promise never puts aside or hands over more than was ordered, and it is
\* fulfilled exactly when all of it was handed over.
THEOREM ShopPromisesAddUp == ShopSpec => []PromisesAddUp
<1>1. TypeOK /\ Tables \in SoundTables /\ [ShopNext]_shopVars => (Tables \in SoundTables)'
  <2>1. SoundTables \in SUBSET TablesType
    BY DEF SoundTables
  <2> QED BY <2>1, SoundKeeps, StepKeeps
<1>2. Tables \in SoundTables => PromisesAddUp
  BY TablesTyped DEF SoundTables, Sound, PromisesAddUp
<1> QED BY ShopInitSound, <1>1, <1>2, ShopTypeOK, PTL DEF ShopSpec
-----------------------------------------------------------------------------
(***************************************************************************)
(* A receipt is counted once.                                              *)
(***************************************************************************)

CountedOnce(row) == row.moved = IF row.stockUpdated THEN row.quantity ELSE 0

\* Every step counts the goods of a purchase in when it raises the flag, and
\* out when it lowers it.
LEMMA ReceiptStep == TypeOK /\ ReceiptCountedOnce /\ [ShopNext]_shopVars => ReceiptCountedOnce'
<1> SUFFICES ASSUME TypeOK, ReceiptCountedOnce, [ShopNext]_shopVars
             PROVE  ReceiptCountedOnce'
  OBVIOUS
<1>1. \A p \in Purchase : purchases[p] \in PurchaseRow /\ CountedOnce(purchases[p])
  BY DEF TypeOK, ReceiptCountedOnce, CountedOnce
<1>2. ASSUME NEW p \in Purchase, NEW row, Put(p, row), CountedOnce(row)
      PROVE  ReceiptCountedOnce'
  BY <1>1, <1>2 DEF Put, ReceiptCountedOnce, CountedOnce, TypeOK
<1>3. ASSUME purchases' = purchases PROVE ReceiptCountedOnce'
  BY <1>3 DEF ReceiptCountedOnce
<1>4. CASE \E p \in Purchase : BeginReceipt(p) \/ MarkReceived(p) \/ ReceiptDies(p)
                               \/ RepeatReceipt(p)
  <2>1. PICK p \in Purchase : BeginReceipt(p) \/ MarkReceived(p) \/ ReceiptDies(p)
                              \/ RepeatReceipt(p)
    BY <1>4
  <2> QED
    BY <1>1, <1>2, <2>1
       DEF BeginReceipt, MarkReceived, ReceiptDies, RepeatReceipt, CountedOnce, PurchaseRow
<1>5. CASE \E p \in Purchase : CreditStock(p)
  <2>1. PICK p \in Purchase : CreditStock(p)
    BY <1>5
  <2> DEFINE row  == purchases[p]
             done == [row EXCEPT !.crediting = @ - 1, !.booked = TRUE,
                                 !.status = IF row.voided THEN @ ELSE "Received"]
             came == [done EXCEPT !.stockUpdated = TRUE, !.moved = @ + row.quantity]
  <2>2. row \in PurchaseRow /\ CountedOnce(row)
    BY <1>1
  <2>3. /\ done.moved = row.moved /\ done.quantity = row.quantity
        /\ done.stockUpdated = row.stockUpdated
        /\ {"moved", "quantity", "stockUpdated"} \subseteq DOMAIN done
    BY <2>2 DEF PurchaseRow
  <2>4. CASE CanClaim(row) /\ Put(p, came)
    <3>1. row.moved = 0 /\ row.quantity \in Nat
      BY <2>2, <2>4 DEF CanClaim, CountedOnce, PurchaseRow
    <3>2. came.moved = row.quantity /\ came.quantity = row.quantity /\ came.stockUpdated
      <4> HIDE DEF done, row
      <4> QED BY <2>3, <3>1
    <3> HIDE DEF came
    <3> QED BY <1>2, <2>4, <3>2 DEF CountedOnce
  <2>5. CASE Put(p, done)
    <3> HIDE DEF done
    <3> QED BY <1>2, <2>2, <2>3, <2>5 DEF CountedOnce
  <2> QED BY <2>1, <2>4, <2>5 DEF CreditStock
<1>6. CASE \E p \in Purchase, q \in Quantities : RestatePurchase(p, q)
  <2>1. PICK p \in Purchase, q \in Quantities : RestatePurchase(p, q)
    BY <1>6
  <2> DEFINE row == purchases[p]
             net == IF row.stockUpdated THEN row.moved - row.quantity ELSE row.moved
             again == [row EXCEPT !.quantity = q, !.stockUpdated = TRUE,
                                  !.booked = row.received, !.moved = net + q]
             before == [row EXCEPT !.quantity = q]
  <2>2. row \in PurchaseRow /\ CountedOnce(row) /\ q \in Nat
    BY <1>1, ShopAssumption
  <2>3. net = 0
    BY <2>2 DEF CountedOnce, PurchaseRow
  <2>4. CASE ~row.stockUpdated /\ Put(p, before)
    <3>1. CountedOnce(before)
      BY <2>2, <2>4 DEF CountedOnce, PurchaseRow
    <3> HIDE DEF before
    <3> QED BY <1>2, <2>4, <3>1
  <2>5. CASE Put(p, again)
    <3>1. again.moved = net + q /\ again.quantity = q /\ again.stockUpdated
      <4> HIDE DEF net
      <4> QED BY <2>2 DEF PurchaseRow
    <3>2. again.moved = q
      <4> HIDE DEF again
      <4> QED BY <2>2, <2>3, <3>1
    <3> HIDE DEF again
    <3> QED BY <1>2, <2>5, <3>1, <3>2 DEF CountedOnce
  <2> QED BY <2>1, <2>4, <2>5 DEF RestatePurchase
<1>7. CASE \E p \in Purchase : VoidPurchase(p)
  <2>1. PICK p \in Purchase : VoidPurchase(p)
    BY <1>7
  <2> DEFINE row == purchases[p]
             m == IF row.stockUpdated THEN row.moved - row.quantity ELSE row.moved
             gone == [row EXCEPT !.voided = TRUE, !.stockUpdated = FALSE, !.moved = m]
  <2>2. row \in PurchaseRow /\ CountedOnce(row)
    BY <1>1
  <2>3. m = 0
    BY <2>2 DEF CountedOnce, PurchaseRow
  <2>4. Put(p, gone)
    BY <2>1, <2>2 DEF VoidPurchase, PurchaseRow
  <2>5. gone.moved = m /\ gone.stockUpdated = FALSE
    <3> HIDE DEF m
    <3> QED BY <2>2 DEF PurchaseRow
  <2> HIDE DEF gone, m
  <2> QED BY <1>2, <2>3, <2>4, <2>5 DEF CountedOnce
<1>8. CASE purchases' = purchases
  BY <1>3, <1>8
<1>9. ASSUME \/ \E i \in Item, c \in Client, q \in Quantities : CreateReservation(i, c, q)
             \/ \E h \in DOMAIN holds : ReleaseReservation(h)
             \/ \E i \in Item, delta \in Adjustments : AdjustStock(i, delta)
             \/ \E i \in Item, c \in Buyer, q \in Quantities, backorder \in BOOLEAN :
                  Checkout(i, c, q, backorder)
             \/ \E s \in DOMAIN sales : UndoSale(s)
             \/ \E s \in DOMAIN sales, i \in Item, c \in Buyer, q \in Quantities,
                   backorder \in BOOLEAN : AmendSale(s, i, c, q, backorder)
             \/ \E k \in DOMAIN commitments, q \in Quantities : Deliver(k, q)
             \/ \E k \in DOMAIN commitments : CancelCommitment(k)
             \/ \E i \in Item : AllocateNow(i)
             \/ UNCHANGED shopVars
      PROVE  purchases' = purchases
  BY <1>9 DEF CreateReservation, ReleaseReservation, AdjustStock, Checkout, UndoSale,
              AmendSale, Deliver, CancelCommitment, AllocateNow, shopVars
<1> QED BY <1>4, <1>5, <1>6, <1>7, <1>8, <1>9 DEF ShopNext

\* However many requests receive a purchase at once, and whoever corrects or
\* voids it between their steps, its goods are counted once while they are
\* here and not at all otherwise: the claim of _credit_stock is enough.
THEOREM ShopReceiptCountedOnce == ShopSpec => []ReceiptCountedOnce
<1>1. ShopInit => ReceiptCountedOnce
  BY DEF ShopInit, ReceiptCountedOnce
<1> QED BY <1>1, ReceiptStep, ShopTypeOK, PTL DEF ShopSpec

-----------------------------------------------------------------------------
(***************************************************************************)
(* The movements under a sale are what its customer holds of it, for every *)
(* set of items, customers and purchases and every bound.                  *)
(*                                                                         *)
(* The invariant is not inductive as it stands: a handover adds to the     *)
(* movements of the sale its promise belongs to, so that sale has to       *)
(* stand still; undoing a sale settles one promise of it, so there may be  *)
(* only one; and the goods are put back only if their number is positive.  *)
(***************************************************************************)

\* A promise is of a sale on file, which stands while the promise is open.
Linked(t) ==
  \A k \in DOMAIN t.commitments :
    /\ t.commitments[k].sale \in DOMAIN t.sales
    /\ Awaiting(t, k) => t.sales[t.commitments[k].sale].status = "completed"

\* A sale made at most one promise.
Single(t) ==
  \A j, k \in DOMAIN t.commitments :
    t.commitments[j].sale = t.commitments[k].sale => j = k

\* No more is promised of a sale than was sold, and its movements net out.
Even(t) == \A s \in DOMAIN t.sales : Delivered(t, s) >= 0 /\ NetsOut(t, s)

BookedTables == {t \in TablesType : Linked(t) /\ Single(t) /\ Even(t)}

\* The rows whose totals are Promised and HandedOver.
OrderedRows(t, s) ==
  [k \in DOMAIN t.commitments |->
     IF t.commitments[k].sale = s THEN t.commitments[k].ordered ELSE 0]

FulfilledRows(t, s) ==
  [k \in DOMAIN t.commitments |->
     IF t.commitments[k].sale = s THEN t.commitments[k].fulfilled ELSE 0]

\* The totals are over sequences of counts.
LEMMA PromiseRows ==
  ASSUME NEW t \in TablesType, NEW s
  PROVE  /\ OrderedRows(t, s) \in Seq(Int) /\ FulfilledRows(t, s) \in Seq(Int)
         /\ Len(OrderedRows(t, s)) = Len(t.commitments)
         /\ Len(FulfilledRows(t, s)) = Len(t.commitments)
         /\ Promised(t, s) = SeqSum(OrderedRows(t, s))
         /\ HandedOver(t, s) = SeqSum(FulfilledRows(t, s))
         /\ Promised(t, s) \in Int /\ HandedOver(t, s) \in Int
<1>1. ASSUME NEW k \in DOMAIN t.commitments
      PROVE  t.commitments[k].ordered \in Int /\ t.commitments[k].fulfilled \in Int
  BY CommitmentRow
<1>2. t.commitments \in Seq(Commitment)
  BY DEF TablesType
<1>3. /\ OrderedRows(t, s) \in Seq(Int) /\ FulfilledRows(t, s) \in Seq(Int)
      /\ Len(OrderedRows(t, s)) = Len(t.commitments)
      /\ Len(FulfilledRows(t, s)) = Len(t.commitments)
  BY <1>1, <1>2 DEF OrderedRows, FulfilledRows
<1>4. Promised(t, s) = SeqSum(OrderedRows(t, s))
      /\ HandedOver(t, s) = SeqSum(FulfilledRows(t, s))
  BY DEF Promised, HandedOver, OrderedRows, FulfilledRows
<1> QED BY <1>3, <1>4, SumType

\* The columns of a sale.
LEMMA SaleRow ==
  ASSUME NEW t \in TablesType, NEW s \in DOMAIN t.sales
  PROVE  /\ t.sales \in Seq(Sale)
         /\ s \in Nat \ {0} /\ s <= Len(t.sales)
         /\ t.sales[s] \in Sale
         /\ t.sales[s].quantity \in Nat \ {0}
         /\ t.sales[s].moved \in Int
<1>1. t.sales \in Seq(Sale)
  BY DEF TablesType
<1>2. t.sales[s] \in Sale
  BY <1>1
<1> QED BY <1>1, <1>2 DEF Sale

\* What was handed over and promised of a sale, and its quantity, are all that
\* Delivered depends on.
LEMMA SameDelivered ==
  ASSUME NEW t \in TablesType, NEW u \in TablesType,
         DOMAIN u.commitments = DOMAIN t.commitments,
         \A k \in DOMAIN t.commitments :
           /\ u.commitments[k].sale = t.commitments[k].sale
           /\ u.commitments[k].ordered = t.commitments[k].ordered
           /\ u.commitments[k].fulfilled = t.commitments[k].fulfilled,
         NEW s, u.sales[s].quantity = t.sales[s].quantity
  PROVE  Delivered(u, s) = Delivered(t, s)
<1>1. OrderedRows(u, s) = OrderedRows(t, s) /\ FulfilledRows(u, s) = FulfilledRows(t, s)
  BY DEF OrderedRows, FulfilledRows
<1>2. Promised(u, s) = Promised(t, s) /\ HandedOver(u, s) = HandedOver(t, s)
  BY <1>1, PromiseRows
<1> QED BY <1>2 DEF Delivered

\* Tables whose promises are of the same sales and sizes, and whose sales are
\* the same, are booked alike; a promise may be settled meanwhile.
LEMMA SameBooked ==
  ASSUME NEW t \in BookedTables, NEW u \in TablesType,
         DOMAIN u.commitments = DOMAIN t.commitments,
         \A k \in DOMAIN t.commitments :
           /\ u.commitments[k].sale = t.commitments[k].sale
           /\ u.commitments[k].ordered = t.commitments[k].ordered
           /\ u.commitments[k].fulfilled = t.commitments[k].fulfilled
           /\ Awaiting(u, k) => Awaiting(t, k),
         u.sales = t.sales
  PROVE  u \in BookedTables
<1>1. t \in TablesType /\ Linked(t) /\ Single(t) /\ Even(t)
  BY DEF BookedTables
<1>2. Linked(u) /\ Single(u)
  BY <1>1 DEF Linked, Single
<1>3. \A s \in DOMAIN t.sales : Delivered(u, s) = Delivered(t, s)
  BY <1>1, SameDelivered
<1>4. Even(u)
  BY <1>1, <1>3 DEF Even, NetsOut
<1> QED BY <1>2, <1>4 DEF BookedTables

\* Cancelling a promise changes its status and nothing else of it.
LEMMA CancelColumns ==
  ASSUME NEW t \in TablesType, NEW k \in DOMAIN t.commitments
  PROVE  /\ Cancel(t, k) \in TablesType
         /\ Cancel(t, k).sales = t.sales
         /\ DOMAIN Cancel(t, k).commitments = DOMAIN t.commitments
         /\ ~Awaiting(Cancel(t, k), k)
         /\ \A j \in DOMAIN t.commitments :
              /\ Cancel(t, k).commitments[j].sale = t.commitments[j].sale
              /\ Cancel(t, k).commitments[j].ordered = t.commitments[j].ordered
              /\ Cancel(t, k).commitments[j].fulfilled = t.commitments[j].fulfilled
              /\ j # k => Cancel(t, k).commitments[j] = t.commitments[j]
<1> DEFINE row == t.commitments[k]
           u == Consume(t, row.item, row.client, row.allocated, "released")
           gone == [row EXCEPT !.status = "cancelled", !.allocated = 0]
<1>1. row \in Commitment /\ row.item \in Item /\ row.allocated \in Int
  BY CommitmentRow
<1>2. u \in TablesType /\ u.commitments = t.commitments /\ u.sales = t.sales
  <2>1. u \in TablesType
    BY <1>1, ConsumeType DEF HoldStatus
  <2> QED BY <1>1, <2>1, HoldsOnly
<1>3. Cancel(t, k) = [u EXCEPT !.commitments[k] = gone]
  BY DEF Cancel
<1>4. t.commitments \in Seq(Commitment)
  BY DEF TablesType
<1>5. Cancel(t, k).commitments = [t.commitments EXCEPT ![k] = gone] /\ Cancel(t, k).sales = t.sales
  <2> HIDE DEF u, gone
  <2> QED BY <1>2, <1>3 DEF TablesType
<1>6. /\ gone.sale = row.sale /\ gone.ordered = row.ordered /\ gone.fulfilled = row.fulfilled
      /\ gone.status = "cancelled"
  BY <1>1 DEF Commitment
<1>7. Cancel(t, k) \in TablesType
  BY CancelType
<1> HIDE DEF gone
<1> QED BY <1>4, <1>5, <1>6, <1>7 DEF Awaiting

\* ... so that what was delivered of every sale stays what it was.
LEMMA CancelBooked ==
  ASSUME NEW t \in BookedTables, NEW k \in DOMAIN t.commitments, Awaiting(t, k)
  PROVE  Cancel(t, k) \in BookedTables
<1>1. t \in TablesType
  BY DEF BookedTables
<1>2. \A j \in DOMAIN t.commitments : Awaiting(Cancel(t, k), j) => Awaiting(t, j)
  BY <1>1, CancelColumns DEF Awaiting
<1> QED BY <1>1, <1>2, CancelColumns, SameBooked

\* Serving a promise leaves the sales alone and settles no promise.
LEMMA ServeBooked ==
  ASSUME NEW t \in BookedTables, NEW k \in DOMAIN t.commitments, Awaiting(t, k)
  PROVE  Serve(t, k) \in BookedTables
<1> DEFINE row  == t.commitments[k]
           take == Lesser(Want(t, k), Available(t, row.item))
           u    == PlaceHold(t, row.item, row.client, take)
           n    == row.allocated + take
           more == [row EXCEPT !.allocated = n]
<1>1. t \in TablesType /\ row \in Commitment /\ row.item \in Item
  BY CommitmentRow DEF BookedTables
<1>2. Serve(t, k) \in TablesType /\ DOMAIN Serve(t, k).commitments = DOMAIN t.commitments
  BY <1>1, ServeType
<1>3. CASE take > 0
  <2>1. u.commitments = t.commitments /\ u.sales = t.sales /\ DOMAIN u = DOMAIN t
    <3>1. u.commitments = t.commitments /\ u.sales = t.sales
      BY <1>1, HoldsOnly
    <3>2. DOMAIN u = DOMAIN t
      BY <1>1 DEF PlaceHold, Sync, TablesType
    <3> QED BY <3>1, <3>2
  <2>2. Serve(t, k) = [u EXCEPT !.commitments[k] = more]
    BY <1>3, <2>1 DEF Serve
  <2>3. /\ Serve(t, k).commitments = [t.commitments EXCEPT ![k] = more]
        /\ Serve(t, k).sales = t.sales
    <3>1. {"commitments", "sales"} \subseteq DOMAIN t
      BY <1>1 DEF TablesType
    <3> HIDE DEF u, more
    <3> QED BY <2>1, <2>2, <3>1
  <2>4. /\ more.sale = row.sale /\ more.ordered = row.ordered
        /\ more.fulfilled = row.fulfilled /\ more.status = row.status
    <3> HIDE DEF n
    <3> QED BY <1>1 DEF Commitment
  <2> HIDE DEF more
  <2>5. \A j \in DOMAIN t.commitments :
          /\ Serve(t, k).commitments[j].sale = t.commitments[j].sale
          /\ Serve(t, k).commitments[j].ordered = t.commitments[j].ordered
          /\ Serve(t, k).commitments[j].fulfilled = t.commitments[j].fulfilled
          /\ Awaiting(Serve(t, k), j) => Awaiting(t, j)
    BY <2>3, <2>4 DEF Awaiting
  <2> QED BY <1>2, <2>3, <2>5, SameBooked
<1>4. CASE ~(take > 0)
  BY <1>4 DEF Serve
<1> QED BY <1>3, <1>4

\* A handover moves as much as it marks.
LEMMA HandOverBooked ==
  ASSUME NEW t \in BookedTables, NEW k \in DOMAIN t.commitments, NEW q \in Nat \ {0},
         Awaiting(t, k),
         q <= Outstanding(t, k),
         q <= t.quantity[t.commitments[k].item]
  PROVE  HandOver(t, k, q) \in BookedTables
<1> DEFINE row  == t.commitments[k]
           s    == row.sale
           m    == t.sales[s].moved - q
           sold == [t.sales[s] EXCEPT !.moved = m]
           gone == [t EXCEPT !.quantity[row.item] = @ - q, !.sales[row.sale].moved = @ - q]
           u    == Consume(gone, row.item, row.client, q, "collected")
           v    == HandOver(t, k, q)
<1>1. /\ t \in TablesType /\ Linked(t) /\ Single(t) /\ Even(t)
      /\ row \in Commitment /\ row.item \in Item
      /\ row.ordered \in Nat /\ row.fulfilled \in Nat /\ row.allocated \in Nat
      /\ t.commitments \in Seq(Commitment)
  BY CommitmentRow DEF BookedTables, TablesType
<1>2. s \in DOMAIN t.sales /\ t.sales[s].status = "completed"
  BY <1>1 DEF Linked
<1>3. /\ t.sales \in Seq(Sale) /\ t.sales[s] \in Sale /\ t.sales[s].quantity \in Nat
      /\ t.sales[s].moved \in Int
  BY <1>1, <1>2, SaleRow
<1>4. v \in TablesType
  BY <1>1, HandOverType
<1>5. gone \in TablesType /\ gone.commitments = t.commitments
      /\ gone.sales = [t.sales EXCEPT ![s] = sold]
  <2>1. gone \in TablesType
    BY <1>1, DepartedType
  <2>2. gone.commitments = t.commitments /\ gone.sales = [t.sales EXCEPT ![s] = sold]
    BY <1>1, <1>3 DEF TablesType
  <2> QED BY <2>1, <2>2
<1>6. u \in TablesType /\ u.commitments = t.commitments /\ u.sales = [t.sales EXCEPT ![s] = sold]
  <2> HIDE DEF gone, sold
  <2>1. u \in TablesType
    BY <1>1, <1>5, ConsumeType DEF HoldStatus
  <2>2. u.commitments = gone.commitments /\ u.sales = gone.sales
    BY <1>1, <1>5, HoldsOnly
  <2> QED BY <1>5, <2>1, <2>2
<1>7. \E new \in Commitment :
        /\ v.commitments = [t.commitments EXCEPT ![k] = new]
        /\ new.sale = s /\ new.ordered = row.ordered
        /\ new.fulfilled = row.fulfilled + q
  <2> DEFINE left == AtLeastZero(row.allocated - q)
             done == row.fulfilled + q
             a == [row EXCEPT !.fulfilled = row.ordered, !.allocated = left, !.status = "fulfilled"]
             b == [row EXCEPT !.fulfilled = done, !.allocated = left]
  <2>1. left \in Nat /\ done \in Nat /\ done <= row.ordered
    <3>1. q <= row.ordered - row.fulfilled
      BY DEF Outstanding
    <3>2. left \in Nat
      BY <1>1 DEF AtLeastZero
    <3> HIDE DEF left, row
    <3> QED BY <1>1, <3>1, <3>2
  <2>2. a \in Commitment /\ b \in Commitment
    <3> HIDE DEF left, done
    <3> QED BY <1>1, <2>1 DEF Commitment, CommitmentStatus
  <2>3. /\ a.sale = s /\ a.ordered = row.ordered /\ a.fulfilled = row.ordered
        /\ b.sale = s /\ b.ordered = row.ordered /\ b.fulfilled = done
    <3> HIDE DEF left, done
    <3> QED BY <1>1 DEF Commitment
  <2>4. v = [u EXCEPT !.commitments[k] = IF done >= row.ordered THEN a ELSE b]
    <3>1. v = MarkFulfilled(u, k, q)
      BY DEF HandOver
    <3> HIDE DEF u, v
    <3> QED BY <1>6, <3>1 DEF MarkFulfilled
  <2> DEFINE new == IF done >= row.ordered THEN a ELSE b
  <2>5. v.commitments = [t.commitments EXCEPT ![k] = new]
    <3> HIDE DEF u, v, a, b, done
    <3> QED BY <1>6, <2>4 DEF TablesType
  <2>6. new \in Commitment /\ new.sale = s /\ new.ordered = row.ordered /\ new.fulfilled = done
    <3>1. CASE done >= row.ordered
      <4>1. done = row.ordered
        <5> HIDE DEF done
        <5> QED BY <1>1, <2>1, <3>1
      <4> HIDE DEF a, b, done
      <4> QED BY <2>2, <2>3, <3>1, <4>1
    <3>2. CASE ~(done >= row.ordered)
      <4> HIDE DEF a, b, done
      <4> QED BY <2>2, <2>3, <3>2
    <3> QED BY <3>1, <3>2
  <2> HIDE DEF new, v
  <2> QED BY <2>5, <2>6
<1>8. PICK new \in Commitment :
        /\ v.commitments = [t.commitments EXCEPT ![k] = new]
        /\ new.sale = s /\ new.ordered = row.ordered
        /\ new.fulfilled = row.fulfilled + q
  BY <1>7
<1>9. v.sales = [t.sales EXCEPT ![s] = sold]
  <2>1. v = MarkFulfilled(u, k, q)
    BY DEF HandOver
  <2> HIDE DEF u, v, sold
  <2> QED BY <1>6, <2>1 DEF MarkFulfilled, TablesType
<1>10. sold.moved = m /\ sold.quantity = t.sales[s].quantity /\ sold.status = "completed" /\ m \in Int
  <2>1. m \in Int
    BY <1>3
  <2> HIDE DEF m
  <2> QED BY <1>2, <1>3, <2>1 DEF Sale
<1> HIDE DEF u, gone, sold, v
<1>11. Linked(v) /\ Single(v)
  <2>1. DOMAIN v.commitments = DOMAIN t.commitments /\ DOMAIN v.sales = DOMAIN t.sales
    BY <1>1, <1>3, <1>8, <1>9
  <2>2. \A j \in DOMAIN t.commitments : v.commitments[j].sale = t.commitments[j].sale
    BY <1>1, <1>8
  <2>3. \A j \in DOMAIN t.commitments : Awaiting(v, j) => Awaiting(t, j)
    BY <1>1, <1>8 DEF Awaiting
  <2>4. \A r \in DOMAIN t.sales : v.sales[r].status = t.sales[r].status
    BY <1>2, <1>3, <1>9, <1>10
  <2> QED BY <1>1, <2>1, <2>2, <2>3, <2>4 DEF Linked, Single
<1>12. ASSUME NEW r \in DOMAIN t.sales, r # s
       PROVE  Delivered(v, r) = Delivered(t, r) /\ v.sales[r] = t.sales[r]
  <2>1. OrderedRows(v, r) = OrderedRows(t, r) /\ FulfilledRows(v, r) = FulfilledRows(t, r)
    BY <1>1, <1>8, <1>12 DEF OrderedRows, FulfilledRows
  <2>2. v.sales[r] = t.sales[r]
    BY <1>3, <1>9, <1>12
  <2>3. Promised(v, r) = Promised(t, r) /\ HandedOver(v, r) = HandedOver(t, r)
    BY <1>1, <1>4, <2>1, PromiseRows
  <2> QED BY <2>2, <2>3 DEF Delivered
<1>13. Delivered(v, s) = Delivered(t, s) + q
  <2>1. OrderedRows(v, s) = OrderedRows(t, s)
    BY <1>1, <1>8 DEF OrderedRows
  <2>2. SeqSum(FulfilledRows(v, s)) = SeqSum(FulfilledRows(t, s)) + q
    <3> DEFINE f == FulfilledRows(t, s)
               g == FulfilledRows(v, s)
    <3>1. f \in Seq(Int) /\ g \in Seq(Int) /\ Len(f) = Len(t.commitments) /\ Len(g) = Len(f)
      <4>1. Len(v.commitments) = Len(t.commitments)
        BY <1>1, <1>8
      <4> QED BY <1>1, <1>4, <4>1, PromiseRows
    <3>2. k \in 1 .. Len(f)
      BY <1>1, <3>1
    <3>3. \A j \in 1 .. Len(f) : j # k => g[j] = f[j]
      BY <1>1, <1>8, <3>1 DEF FulfilledRows
    <3>4. f[k] = row.fulfilled /\ g[k] = row.fulfilled + q
      BY <1>1, <1>8 DEF FulfilledRows
    <3> HIDE DEF f, g
    <3>5. SeqSum(g) = SeqSum(f) - f[k] + g[k]
      BY <3>1, <3>2, <3>3, SumReplace
    <3>6. SeqSum(f) \in Int /\ SeqSum(g) \in Int
      BY <3>1, SumType
    <3>7. SeqSum(g) = SeqSum(f) + q
      <4>1. row.fulfilled \in Int /\ q \in Int
        BY <1>1
      <4> HIDE DEF row
      <4> QED BY <3>4, <3>5, <3>6, <4>1
    <3> QED BY <3>7 DEF f, g
  <2>3. Promised(v, s) = Promised(t, s) /\ HandedOver(v, s) = HandedOver(t, s) + q
    BY <1>1, <1>4, <2>1, <2>2, PromiseRows
  <2>4. v.sales[s].quantity = t.sales[s].quantity
    BY <1>2, <1>3, <1>9, <1>10
  <2>5. Promised(t, s) \in Int /\ HandedOver(t, s) \in Int
    BY <1>1, PromiseRows
  <2> QED BY <1>3, <2>3, <2>4, <2>5 DEF Delivered
<1>14. Even(v)
  <2>1. DOMAIN v.sales = DOMAIN t.sales
    BY <1>3, <1>9
  <2>2. \A r \in DOMAIN t.sales : r # s => Delivered(v, r) >= 0 /\ NetsOut(v, r)
    BY <1>1, <1>12 DEF Even, NetsOut
  <2>3. Delivered(t, s) >= 0 /\ t.sales[s].moved = -Delivered(t, s) /\ Delivered(t, s) \in Int
    BY <1>1, <1>2, DeliveredType DEF Even, NetsOut
  <2>4. v.sales[s] = sold
    BY <1>2, <1>3, <1>9
  <2>5. Delivered(v, s) >= 0 /\ NetsOut(v, s)
    <3>1. m = -(Delivered(t, s) + q) /\ Delivered(t, s) + q >= 0
      BY <2>3
    <3> HIDE DEF m
    <3> QED BY <1>10, <1>13, <2>4, <3>1 DEF NetsOut
  <2> QED BY <2>1, <2>2, <2>5 DEF Even
<1> QED BY <1>4, <1>11, <1>14 DEF BookedTables, v

\* A sale moves what it does not promise.
LEMMA RingBooked ==
  ASSUME NEW t \in BookedTables, NEW i \in Item, NEW c \in Buyer, NEW q \in Nat \ {0},
         NEW backorder \in BOOLEAN, CanRing(t, i, c, q, backorder)
  PROVE  Ring(t, i, c, q) \in BookedTables
<1> DEFINE s     == Len(t.sales) + 1
           short == Short(t, i, c, q)
           taken == Taken(t, i, c, q)
           n     == Lesser(short, q)
           row   == [item |-> i, client |-> c, quantity |-> q, status |-> "completed",
                     moved |-> -taken]
           new   == [sale |-> s, item |-> i, client |-> c, ordered |-> n,
                     fulfilled |-> 0, allocated |-> 0, status |-> "awaiting"]
           u     == Drawing(t, i, c, q)
           v     == Ring(t, i, c, q)
<1>1. /\ t \in TablesType /\ Linked(t) /\ Single(t) /\ Even(t)
      /\ t.commitments \in Seq(Commitment) /\ t.sales \in Seq(Sale)
      /\ s \in Nat \ {0} /\ s \notin DOMAIN t.sales
  BY DEF BookedTables, TablesType
<1>2. short \in Nat /\ taken \in Nat
  BY <1>1, TakenType
<1>3. u \in TablesType /\ v \in TablesType
  BY <1>1, RingType
<1>4. u.commitments = t.commitments /\ u.sales = Append(t.sales, row)
  <2>1. Gone(t, i, c, q) \in TablesType /\ Gone(t, i, c, q).commitments = t.commitments
    BY <1>1, GoneType, OtherColumns
  <2>2. Gone(t, i, c, q).sales = Append(t.sales, row)
    BY <1>1 DEF Gone, TablesType
  <2>3. u.commitments = Gone(t, i, c, q).commitments /\ u.sales = Gone(t, i, c, q).sales
    BY <2>1, HoldsOnly DEF Drawing
  <2> QED BY <2>1, <2>2, <2>3
<1>5. \/ short = 0 /\ v.commitments = t.commitments
      \/ short > 0 /\ v.commitments = Append(t.commitments, new)
  <2>1. CASE short = 0 /\ v = u
    BY <1>4, <2>1
  <2>2. CASE short > 0 /\ v = Promise(u, s, i, c, n)
    <3>1. v.commitments = Append(t.commitments, new)
      <4> HIDE DEF u, v, n
      <4> QED BY <1>3, <1>4, <2>2 DEF Promise, TablesType
    <3> QED BY <2>2, <3>1
  <2> QED BY <1>1, <2>1, <2>2, RingParts
<1>6. v.sales = Append(t.sales, row)
  <2>1. CASE v = u
    BY <1>4, <2>1
  <2>2. CASE v = Promise(u, s, i, c, n)
    <3> HIDE DEF u, v, n, row
    <3> QED BY <1>3, <1>4, <2>2 DEF Promise, TablesType
  <2> QED BY <1>1, <2>1, <2>2, RingParts
<1>7. row.quantity = q /\ row.status = "completed" /\ row.moved = -taken
  OBVIOUS
<1>8. /\ DOMAIN v.sales = DOMAIN t.sales \cup {s}
      /\ v.sales[s] = row
      /\ \A r \in DOMAIN t.sales : v.sales[r] = t.sales[r]
  <2> HIDE DEF row, v
  <2> QED BY <1>1, <1>6
<1>9. new.sale = s /\ new.ordered = n /\ new.fulfilled = 0
  OBVIOUS
<1>10. n \in Nat /\ (short > 0 => taken = q - n) /\ (short = 0 => taken = q) /\ n <= q
  <2>1. taken = IF q - short > 0 THEN q - short ELSE 0
    BY DEF Taken, AtLeastZero
  <2>2. n = IF short <= q THEN short ELSE q
    BY DEF Lesser
  <2> HIDE DEF taken, short, n
  <2> QED BY <1>2, <2>1, <2>2
<1>11. \A k \in DOMAIN t.commitments : t.commitments[k].sale # s
  BY <1>1 DEF Linked
<1> HIDE DEF row, new, u, v, short, taken, n
<1>12. Linked(v) /\ Single(v)
  <2>1. CASE v.commitments = t.commitments
    <3>1. \A k \in DOMAIN t.commitments : Awaiting(v, k) <=> Awaiting(t, k)
      BY <2>1 DEF Awaiting
    <3> QED BY <1>1, <1>8, <2>1, <3>1 DEF Linked, Single
  <2>2. CASE v.commitments = Append(t.commitments, new)
    <3> DEFINE l == Len(t.commitments) + 1
    <3>1. /\ DOMAIN v.commitments = DOMAIN t.commitments \cup {l}
          /\ l \notin DOMAIN t.commitments
          /\ v.commitments[l] = new
          /\ \A k \in DOMAIN t.commitments : v.commitments[k] = t.commitments[k]
      BY <1>1, <2>2
    <3>2. \A k \in DOMAIN t.commitments : Awaiting(v, k) <=> Awaiting(t, k)
      BY <3>1 DEF Awaiting
    <3> HIDE DEF l
    <3>3. Linked(v)
      BY <1>1, <1>7, <1>8, <1>9, <3>1, <3>2 DEF Linked
    <3>4. Single(v)
      BY <1>1, <1>9, <1>11, <3>1 DEF Single
    <3> QED BY <3>3, <3>4
  <2> QED BY <1>5, <2>1, <2>2
<1>13. ASSUME NEW r \in DOMAIN t.sales
       PROVE  Delivered(v, r) = Delivered(t, r)
  <2>1. r # s
    BY <1>1
  <2>2. Promised(v, r) = Promised(t, r) /\ HandedOver(v, r) = HandedOver(t, r)
    <3>1. CASE v.commitments = t.commitments
      BY <3>1 DEF Promised, HandedOver
    <3>2. CASE v.commitments = Append(t.commitments, new)
      <4>0. new.sale # r
        BY <1>9, <2>1
      <4>1. /\ OrderedRows(v, r) = Append(OrderedRows(t, r), 0)
            /\ FulfilledRows(v, r) = Append(FulfilledRows(t, r), 0)
        <5> HIDE DEF s
        <5>1. OrderedRows(v, r) = Append(OrderedRows(t, r), 0)
          BY <1>1, <3>2, <4>0 DEF OrderedRows
        <5>2. FulfilledRows(v, r) = Append(FulfilledRows(t, r), 0)
          BY <1>1, <3>2, <4>0 DEF FulfilledRows
        <5> QED BY <5>1, <5>2
      <4>2. OrderedRows(t, r) \in Seq(Int) /\ FulfilledRows(t, r) \in Seq(Int)
        BY <1>1, PromiseRows
      <4>3. /\ SeqSum(OrderedRows(v, r)) = SeqSum(OrderedRows(t, r)) + 0
            /\ SeqSum(FulfilledRows(v, r)) = SeqSum(FulfilledRows(t, r)) + 0
        BY <4>1, <4>2, SumAppend
      <4>4. SeqSum(OrderedRows(t, r)) \in Int /\ SeqSum(FulfilledRows(t, r)) \in Int
        BY <4>2, SumType
      <4>5. /\ SeqSum(OrderedRows(v, r)) = SeqSum(OrderedRows(t, r))
            /\ SeqSum(FulfilledRows(v, r)) = SeqSum(FulfilledRows(t, r))
        BY <4>3, <4>4
      <4> QED BY <1>1, <1>3, <4>5, PromiseRows
    <3> QED BY <1>5, <3>1, <3>2
  <2> QED BY <1>8, <2>2 DEF Delivered
<1>14. Delivered(v, s) = taken
  <2>1. Promised(t, s) = 0 /\ HandedOver(t, s) = 0
    <3>1. \A k \in 1 .. Len(t.commitments) : OrderedRows(t, s)[k] = 0 /\ FulfilledRows(t, s)[k] = 0
      BY <1>1, <1>11 DEF OrderedRows, FulfilledRows
    <3> QED BY <1>1, <3>1, PromiseRows, SumZero
  <2>2. v.sales[s].quantity = q
    BY <1>7, <1>8
  <2>3. CASE short = 0 /\ v.commitments = t.commitments
    <3>1. Promised(v, s) = 0 /\ HandedOver(v, s) = 0
      BY <2>1, <2>3 DEF Promised, HandedOver
    <3> QED BY <1>10, <2>2, <2>3, <3>1 DEF Delivered
  <2>4. CASE short > 0 /\ v.commitments = Append(t.commitments, new)
    <3>1. /\ OrderedRows(v, s) = Append(OrderedRows(t, s), n)
          /\ FulfilledRows(v, s) = Append(FulfilledRows(t, s), 0)
      BY <1>1, <1>9, <2>4 DEF OrderedRows, FulfilledRows
    <3>2. /\ SeqSum(OrderedRows(v, s)) = SeqSum(OrderedRows(t, s)) + n
          /\ SeqSum(FulfilledRows(v, s)) = SeqSum(FulfilledRows(t, s)) + 0
      <4>1. OrderedRows(t, s) \in Seq(Int) /\ FulfilledRows(t, s) \in Seq(Int)
        BY <1>1, PromiseRows
      <4>2. n \in Int /\ 0 \in Int
        BY <1>10
      <4> HIDE DEF s
      <4> QED BY <3>1, <4>1, <4>2, SumAppend
    <3>3. Promised(v, s) = n /\ HandedOver(v, s) = 0
      BY <1>1, <1>3, <1>10, <2>1, <3>2, PromiseRows
    <3> QED BY <1>10, <2>2, <2>4, <3>3 DEF Delivered
  <2> QED BY <1>5, <2>3, <2>4
<1>15. Even(v)
  <2>1. \A r \in DOMAIN t.sales : Delivered(v, r) >= 0 /\ NetsOut(v, r)
    BY <1>1, <1>8, <1>13 DEF Even, NetsOut
  <2>2. Delivered(v, s) >= 0 /\ NetsOut(v, s)
    BY <1>2, <1>7, <1>8, <1>14 DEF NetsOut
  <2> QED BY <1>8, <2>1, <2>2 DEF Even
<1>16. v \in BookedTables
  BY <1>3, <1>12, <1>15 DEF BookedTables
<1> QED BY <1>16 DEF v

\* What a sale that stands has moved is put back in full.
LEMMA PutBackMoves ==
  ASSUME NEW t \in BookedTables, NEW s \in DOMAIN t.sales,
         t.sales[s].status = "completed"
  PROVE  LET u == PutBack(t, s, Delivered(t, s))
         IN  /\ u \in TablesType
             /\ u.commitments = t.commitments
             /\ DOMAIN u.sales = DOMAIN t.sales
             /\ u.sales[s].moved = 0
             /\ u.sales[s].quantity = t.sales[s].quantity
             /\ u.sales[s].status = "completed"
             /\ \A r \in DOMAIN t.sales : r # s => u.sales[r] = t.sales[r]
<1> DEFINE d   == Delivered(t, s)
           u   == PutBack(t, s, d)
           m   == t.sales[s].moved + d
           row == [t.sales[s] EXCEPT !.moved = m]
<1>1. /\ t \in TablesType /\ Even(t) /\ t.sales \in Seq(Sale) /\ t.sales[s] \in Sale
      /\ t.sales[s].moved \in Int
  BY SaleRow DEF BookedTables
<1>2. d \in Int /\ d >= 0 /\ t.sales[s].moved = -d
  BY <1>1, DeliveredType DEF Even, NetsOut
<1>3. u \in TablesType /\ u.commitments = t.commitments
  BY <1>1, <1>2, PutBackType, OtherColumns
<1>4. CASE d <= 0
  <2>1. t.sales[s].moved = 0
    <3> HIDE DEF d
    <3> QED BY <1>2, <1>4
  <2>2. u = t
    BY <1>4 DEF PutBack
  <2> HIDE DEF u
  <2> QED BY <1>3, <2>1, <2>2 DEF u, d
<1>5. CASE ~(d <= 0)
  <2>1. u.sales = [t.sales EXCEPT ![s] = row]
    BY <1>1, <1>5 DEF PutBack, TablesType
  <2>2. m = 0
    <3> HIDE DEF d
    <3> QED BY <1>2
  <2>3. row.moved = m /\ row.quantity = t.sales[s].quantity /\ row.status = "completed"
    <3> HIDE DEF m
    <3> QED BY <1>1 DEF Sale
  <2>4. /\ DOMAIN u.sales = DOMAIN t.sales
        /\ u.sales[s] = row
        /\ \A r \in DOMAIN t.sales : r # s => u.sales[r] = t.sales[r]
    <3> HIDE DEF row, u
    <3> QED BY <1>1, <2>1
  <2> HIDE DEF u, row, m
  <2> QED BY <1>3, <2>2, <2>3, <2>4 DEF u, d
<1> QED BY <1>4, <1>5

\* A sale that is taken off the books has moved nothing, and what it promised
\* is settled.
LEMMA UndoneBooked ==
  ASSUME NEW t \in BookedTables, NEW s \in DOMAIN t.sales,
         t.sales[s].status = "completed", NEW status \in {"returned", "amended"}
  PROVE  Undone(t, s, status) \in BookedTables
<1> DEFINE u == PutBack(t, s, Delivered(t, s))
           w == CancelForInvoice(u, s)
           row == [w.sales[s] EXCEPT !.status = status]
           v == Undone(t, s, status)
<1>1. t \in TablesType /\ Linked(t) /\ Single(t) /\ Even(t)
  BY DEF BookedTables
<1>2. /\ u \in TablesType
      /\ u.commitments = t.commitments
      /\ DOMAIN u.sales = DOMAIN t.sales
      /\ u.sales[s].moved = 0
      /\ u.sales[s].quantity = t.sales[s].quantity
      /\ u.sales[s].status = "completed"
      /\ \A r \in DOMAIN t.sales : r # s => u.sales[r] = t.sales[r]
  BY PutBackMoves
<1> HIDE DEF u
<1>3. /\ w \in TablesType
      /\ w.sales = u.sales
      /\ DOMAIN w.commitments = DOMAIN t.commitments
      /\ \A k \in DOMAIN t.commitments :
           /\ w.commitments[k].sale = t.commitments[k].sale
           /\ w.commitments[k].ordered = t.commitments[k].ordered
           /\ w.commitments[k].fulfilled = t.commitments[k].fulfilled
           /\ Awaiting(w, k) => Awaiting(t, k) /\ t.commitments[k].sale # s
  <2>1. CASE /\ w = u
             /\ ~ \E k \in DOMAIN u.commitments : u.commitments[k].sale = s /\ Awaiting(u, k)
    <3> HIDE DEF w
    <3> QED BY <1>2, <2>1 DEF Awaiting
  <2>2. CASE \E k \in DOMAIN u.commitments :
               u.commitments[k].sale = s /\ Awaiting(u, k) /\ w = Cancel(u, k)
    <3>1. PICK k \in DOMAIN u.commitments :
            u.commitments[k].sale = s /\ Awaiting(u, k) /\ w = Cancel(u, k)
      BY <2>2
    <3> HIDE DEF w
    <3>2. /\ w \in TablesType /\ w.sales = u.sales
          /\ DOMAIN w.commitments = DOMAIN u.commitments
          /\ ~Awaiting(w, k)
          /\ \A j \in DOMAIN u.commitments :
               /\ w.commitments[j].sale = u.commitments[j].sale
               /\ w.commitments[j].ordered = u.commitments[j].ordered
               /\ w.commitments[j].fulfilled = u.commitments[j].fulfilled
               /\ j # k => w.commitments[j] = u.commitments[j]
      BY <1>2, <3>1, CancelColumns
    <3>3. ASSUME NEW j \in DOMAIN t.commitments, Awaiting(w, j)
          PROVE  Awaiting(t, j) /\ t.commitments[j].sale # s
      <4>1. j # k
        BY <3>2, <3>3
      <4>2. w.commitments[j] = t.commitments[j]
        BY <1>2, <3>2, <3>3, <4>1
      <4>3. t.commitments[k].sale = s
        BY <1>2, <3>1
      <4> QED BY <1>1, <1>2, <3>1, <3>3, <4>1, <4>2, <4>3 DEF Awaiting, Single
    <3> QED BY <1>2, <3>2, <3>3
  <2> QED BY <1>2, <2>1, <2>2, CancelForInvoiceCases
<1>4. v = [w EXCEPT !.sales[s].status = status]
  BY DEF Undone, Unwind, u
<1> HIDE DEF w
<1>5. w.sales \in Seq(Sale) /\ w.sales[s] \in Sale /\ s \in Nat
  BY <1>2, <1>3, SaleRow
<1>6. v \in TablesType
  <2>1. status \in SaleStatus
    BY DEF SaleStatus
  <2> HIDE DEF v
  <2> QED BY <1>3, <1>4, <1>5, <2>1, RestatusType
<1>7. v.commitments = w.commitments /\ v.sales = [w.sales EXCEPT ![s] = row]
  <2> HIDE DEF v
  <2> QED BY <1>3, <1>4 DEF TablesType
<1>8. /\ row.moved = 0 /\ row.quantity = t.sales[s].quantity /\ row.status # "completed"
  BY <1>2, <1>3, <1>5 DEF Sale
<1> HIDE DEF row, v
<1>9. /\ DOMAIN v.sales = DOMAIN t.sales
      /\ v.sales[s] = row
      /\ \A r \in DOMAIN t.sales : r # s => v.sales[r] = t.sales[r]
  BY <1>2, <1>3, <1>5, <1>7
<1>10. \A k \in DOMAIN t.commitments :
         Awaiting(v, k) => Awaiting(t, k) /\ t.commitments[k].sale # s
  BY <1>3, <1>7 DEF Awaiting
<1>11. Linked(v) /\ Single(v)
  <2>1. Linked(v)
    BY <1>1, <1>3, <1>7, <1>9, <1>10 DEF Linked
  <2>2. Single(v)
    BY <1>1, <1>3, <1>7 DEF Single
  <2> QED BY <2>1, <2>2
<1>12. ASSUME NEW r \in DOMAIN t.sales
       PROVE  Delivered(v, r) = Delivered(t, r)
  <2>1. v.sales[r].quantity = t.sales[r].quantity
    BY <1>8, <1>9
  <2>2. /\ DOMAIN v.commitments = DOMAIN t.commitments
        /\ \A k \in DOMAIN t.commitments :
             /\ v.commitments[k].sale = t.commitments[k].sale
             /\ v.commitments[k].ordered = t.commitments[k].ordered
             /\ v.commitments[k].fulfilled = t.commitments[k].fulfilled
    BY <1>3, <1>7
  <2> QED BY <1>1, <1>6, <2>1, <2>2, SameDelivered
<1>13. Even(v)
  <2>1. \A r \in DOMAIN t.sales : r # s => Delivered(v, r) >= 0 /\ NetsOut(v, r)
    BY <1>1, <1>9, <1>12 DEF Even, NetsOut
  <2>2. Delivered(v, s) >= 0 /\ NetsOut(v, s)
    BY <1>1, <1>8, <1>9, <1>12 DEF Even, NetsOut
  <2> QED BY <1>9, <2>1, <2>2 DEF Even
<1>14. v \in BookedTables
  BY <1>6, <1>11, <1>13 DEF BookedTables
<1> QED BY <1>14 DEF v

\* Every request keeps the books of the sales.
LEMMA BookedKeeps == Keeps(BookedTables)
<1>0. \A t \in BookedTables : t \in TablesType
  BY DEF BookedTables
<1>1. ASSUME NEW t \in BookedTables, NEW u \in TablesType,
             u.commitments = t.commitments, u.sales = t.sales
      PROVE  u \in BookedTables
  <2>1. \A k \in DOMAIN t.commitments : Awaiting(u, k) => Awaiting(t, k)
    BY <1>1 DEF Awaiting
  <2> QED BY <1>1, <2>1, SameBooked
<1>2. ASSUME NEW t \in BookedTables, NEW i \in Item, NEW c \in Client, NEW q \in Nat \ {0}
      PROVE  PlaceHold(t, i, c, q) \in BookedTables
  <2>1. PlaceHold(t, i, c, q) \in TablesType
    BY <1>0, PlaceHoldType
  <2>2. PlaceHold(t, i, c, q).commitments = t.commitments /\ PlaceHold(t, i, c, q).sales = t.sales
    BY <1>0, HoldsOnly
  <2> QED BY <1>1, <2>1, <2>2
<1>3. ASSUME NEW t \in BookedTables, NEW h \in DOMAIN t.holds
      PROVE  Close(t, h, "released") \in BookedTables
  <2>1. Close(t, h, "released") \in TablesType
    BY <1>0, CloseType DEF HoldStatus
  <2>2. Close(t, h, "released").commitments = t.commitments /\ Close(t, h, "released").sales = t.sales
    BY <1>0, HoldsOnly
  <2> QED BY <1>1, <2>1, <2>2
<1>4. \A t \in BookedTables, u \in TablesType : SameButShelf(t, u) => u \in BookedTables
  BY <1>1 DEF SameButShelf
<1> QED
  BY <1>2, <1>3, <1>4, ServeBooked, RingBooked, UndoneBooked, HandOverBooked, CancelBooked
     DEF Keeps

\* Nothing is sold at the start.
LEMMA ShopInitBooked == ShopInit => Tables \in BookedTables
<1> SUFFICES ASSUME ShopInit PROVE Tables \in BookedTables
  OBVIOUS
<1>1. Tables \in TablesType
  BY ShopAssumption DEF ShopInit, Tables, TablesType
<1>2. DOMAIN Tables.commitments = {} /\ DOMAIN Tables.sales = {}
  BY DEF ShopInit, Tables
<1> QED BY <1>1, <1>2 DEF BookedTables, Linked, Single, Even

\* Sold, promised, handed over, cancelled, returned or corrected, in whatever
\* order: the movements under a sale's invoice are what left the shelf for it
\* while it stands, and nothing when it does not (delivered_quantity).
THEOREM ShopSaleMovementsNetOut == ShopSpec => []SaleMovementsNetOut
<1>1. TypeOK /\ Tables \in BookedTables /\ [ShopNext]_shopVars => (Tables \in BookedTables)'
  <2>1. BookedTables \in SUBSET TablesType
    BY DEF BookedTables
  <2> QED BY <2>1, BookedKeeps, StepKeeps
<1>2. Tables \in BookedTables => SaleMovementsNetOut
  BY TablesTyped DEF BookedTables, Even, SaleMovementsNetOut
<1> QED BY ShopInitBooked, <1>1, <1>2, ShopTypeOK, PTL DEF ShopSpec
-----------------------------------------------------------------------------
(***************************************************************************)
(* Who is served first.                                                    *)
(*                                                                         *)
(* The turns of allocate(): where the counter is exact, a turn takes from  *)
(* what is available just what it puts aside, so that after it its promise *)
(* wants nothing or nothing is left; and what an earlier turn has settled  *)
(* a later one leaves alone.                                               *)
(***************************************************************************)

\* A hold that is placed takes as much from what is available.
LEMMA PlaceHoldTakes ==
  ASSUME NEW p \in [Item -> Nat], NEW t \in ExactTables(p), NEW i \in Item,
         NEW c \in Client, NEW q \in Nat \ {0}
  PROVE  Available(PlaceHold(t, i, c, q), i) = Available(t, i) - q
<1> DEFINE row == [item |-> i, client |-> c, quantity |-> q, status |-> "held"]
           u == PlaceHold(t, i, c, q)
<1>1. t \in TablesType /\ t.holds \in Seq(Hold)
  BY DEF ExactTables, TablesType
<1>2. u \in ExactTables(p) /\ u \in TablesType
  BY PlaceHoldExact DEF ExactTables
<1>3. u.holds = Append(t.holds, row) /\ u.quantity = t.quantity
  BY <1>1 DEF PlaceHold, Sync, TablesType
<1>4. row.item = i /\ row.client \in Client /\ row.quantity = q /\ row.status = "held"
  OBVIOUS
<1> HIDE DEF row, u
<1>5. HeldRows(u, i, Client) = Append(HeldRows(t, i, Client), q)
  BY <1>1, <1>3, <1>4 DEF HeldRows
<1>6. HeldRows(t, i, Client) \in Seq(Int) /\ q \in Int
  BY <1>1, HeldRowsType
<1>7. CustomerHeld(u, i) = CustomerHeld(t, i) + q
  BY <1>5, <1>6, SumAppend DEF CustomerHeld
<1>8. CustomerHeld(t, i) \in Int
  BY <1>6, SumType DEF CustomerHeld
<1>9. /\ t.reserved[i] = CustomerHeld(t, i) + p[i]
      /\ u.reserved[i] = CustomerHeld(u, i) + p[i]
  BY <1>2 DEF ExactTables, Exact
<1>10. p[i] \in Nat /\ t.quantity[i] \in Nat
  BY <1>1 DEF TablesType
<1> QED BY <1>3, <1>7, <1>8, <1>9, <1>10 DEF Available, u

\* One turn.
LEMMA ServeEffect ==
  ASSUME NEW p \in [Item -> Nat], NEW t \in ExactTables(p), t \in SoundTables,
         NEW k \in DOMAIN t.commitments, Awaiting(t, k), NEW i, i = t.commitments[k].item,
         NEW u, u = Serve(t, k)
  PROVE  /\ u \in ExactTables(p) /\ u \in SoundTables
         /\ DOMAIN u.commitments = DOMAIN t.commitments
         /\ \A j \in DOMAIN t.commitments : j # k => u.commitments[j] = t.commitments[j]
         /\ u.commitments[k].item = i
         /\ u.commitments[k].status = t.commitments[k].status
         /\ Want(u, k) = 0 \/ Available(u, i) <= 0
         /\ Available(u, i) <= Available(t, i)
         /\ u.commitments[k].allocated > t.commitments[k].allocated => Available(t, i) > 0
<1> DEFINE row  == t.commitments[k]
           take == Lesser(Want(t, k), Available(t, i))
           v    == PlaceHold(t, i, row.client, take)
           more == [row EXCEPT !.allocated = row.allocated + take]
<1>1. /\ t \in TablesType /\ Sound(row) /\ row \in Commitment /\ i \in Item
      /\ row.client \in Client
      /\ row.allocated \in Nat /\ row.ordered \in Nat /\ row.fulfilled \in Nat
  BY SoundSays
<1>2. /\ u \in SoundTables
      /\ u \in ExactTables(p)
  <2>1. u \in SoundTables
    BY ServeSound
  <2>2. Keeps(ExactTables(p))
    BY ExactKeeps
  <2> QED BY <2>1, <2>2 DEF Keeps
<1>3. /\ Want(t, k) = row.ordered - row.fulfilled - row.allocated
      /\ Want(t, k) \in Nat
      /\ Available(t, i) \in Int
  <2>1. Available(t, i) \in Int
    BY <1>1 DEF Available, TablesType
  <2> QED BY <1>1, <2>1 DEF Want, Outstanding, Sound
<1>4. CASE take > 0
  <2>1. /\ take \in Nat \ {0} /\ Available(t, i) > 0
        /\ take = Want(t, k) \/ take = Available(t, i)
    BY <1>3, <1>4 DEF Lesser
  <2>2. v \in TablesType /\ v.commitments = t.commitments
        /\ Available(v, i) = Available(t, i) - take
    <3> HIDE DEF take
    <3>1. v \in TablesType
      BY <1>1, <2>1, PlaceHoldType
    <3>2. v.commitments = t.commitments
      BY <1>1, HoldsOnly
    <3>3. Available(v, i) = Available(t, i) - take
      BY <1>1, <2>1, PlaceHoldTakes
    <3> QED BY <3>1, <3>2, <3>3
  <2>3. u = [v EXCEPT !.commitments[k] = more]
    BY <1>4, <2>2 DEF Serve
  <2> HIDE DEF v, take
  <2>4. u.commitments = [t.commitments EXCEPT ![k] = more]
    <3> HIDE DEF more
    <3> QED BY <2>2, <2>3 DEF TablesType
  <2>5. u.quantity = v.quantity /\ u.reserved = v.reserved
    BY <2>2, <2>3 DEF TablesType
  <2>6. Available(u, i) = Available(t, i) - take
    BY <2>2, <2>5 DEF Available
  <2>7. /\ more.item = row.item /\ more.status = row.status
        /\ more.ordered = row.ordered /\ more.fulfilled = row.fulfilled
        /\ more.allocated = row.allocated + take
    BY <1>1 DEF Commitment
  <2>8. t.commitments \in Seq(Commitment)
    BY <1>1 DEF TablesType
  <2> HIDE DEF more
  <2>9. /\ DOMAIN u.commitments = DOMAIN t.commitments
        /\ \A j \in DOMAIN t.commitments : j # k => u.commitments[j] = t.commitments[j]
        /\ u.commitments[k] = more
    BY <2>4, <2>8
  <2>10. Want(u, k) = Want(t, k) - take
    BY <1>1, <1>3, <2>1, <2>7, <2>9 DEF Want, Outstanding
  <2>11. Want(u, k) = 0 \/ Available(u, i) <= 0
    BY <1>3, <2>1, <2>6, <2>10
  <2>12. Available(u, i) <= Available(t, i)
    BY <1>3, <2>1, <2>6
  <2> QED BY <1>2, <2>1, <2>7, <2>9, <2>11, <2>12
<1>5. CASE ~(take > 0)
  <2>1. u = t
    BY <1>5 DEF Serve
  <2>2. Want(t, k) = 0 \/ Available(t, i) <= 0
    BY <1>3, <1>5 DEF Lesser
  <2> QED BY <1>1, <1>2, <1>3, <2>1, <2>2
<1> QED BY <1>4, <1>5

\* The tables x that the first n turns of allocate() make of t.
Turned(t, i, p, n, x) ==
  /\ x \in ExactTables(p) /\ x \in SoundTables
  /\ DOMAIN x.commitments = DOMAIN t.commitments
  /\ \A j \in DOMAIN t.commitments :
       /\ x.commitments[j].item = t.commitments[j].item
       /\ x.commitments[j].status = t.commitments[j].status
       /\ j > n \/ j \notin OpenFor(t, i) => x.commitments[j] = t.commitments[j]
  /\ \A j \in OpenFor(t, i) : j <= n => Want(x, j) = 0 \/ Available(x, i) <= 0
  /\ \A j, k \in OpenFor(t, i) :
       /\ j < k
       /\ k <= n
       /\ x.commitments[k].allocated > t.commitments[k].allocated
       => Want(x, j) = 0

\* One more turn.
LEMMA TurnedStep ==
  ASSUME NEW p \in [Item -> Nat], NEW t \in TablesType, NEW i \in Item, NEW n \in Nat,
         n + 1 \in DOMAIN t.commitments, NEW x, Turned(t, i, p, n, x)
  PROVE  Turned(t, i, p, n + 1, IF n + 1 \in OpenFor(t, i) THEN Serve(x, n + 1) ELSE x)
<1> DEFINE m == n + 1
           D == DOMAIN t.commitments
           Open == OpenFor(t, i)
<1>1. /\ x \in ExactTables(p) /\ x \in SoundTables /\ DOMAIN x.commitments = D
      /\ \A j \in D : /\ x.commitments[j].item = t.commitments[j].item
                      /\ x.commitments[j].status = t.commitments[j].status
                      /\ j > n \/ j \notin Open => x.commitments[j] = t.commitments[j]
      /\ \A j \in Open : j <= n => Want(x, j) = 0 \/ Available(x, i) <= 0
      /\ \A j, k \in Open :
           /\ j < k
           /\ k <= n
           /\ x.commitments[k].allocated > t.commitments[k].allocated
           => Want(x, j) = 0
  BY DEF Turned
<1>2. /\ Open \subseteq D /\ D \subseteq Nat /\ m \in D /\ m > n
      /\ \A j \in D : j <= m <=> j <= n \/ j = m
      /\ \A j \in Open : t.commitments[j].item = i /\ t.commitments[j].status = "awaiting"
  <2>1. t.commitments \in Seq(Commitment)
    BY DEF TablesType
  <2>2. D \subseteq Nat
    BY <2>1
  <2>3. Open \subseteq D
           /\ \A j \in Open : t.commitments[j].item = i /\ t.commitments[j].status = "awaiting"
    BY DEF OpenFor, Awaiting
  <2>4. ASSUME NEW j \in D PROVE j <= m <=> j <= n \/ j = m
    <3>1. j \in Nat
      BY <2>2
    <3> QED BY <3>1
  <2> QED BY <2>2, <2>3, <2>4
<1>3. \A j \in D : x.commitments[j].allocated \in Nat /\ t.commitments[j].allocated \in Nat
  BY <1>1, SoundSays, CommitmentRow
<1> HIDE DEF D, Open
<1>4. CASE m \notin Open
  <2>1. \A j \in D : /\ x.commitments[j].item = t.commitments[j].item
                     /\ x.commitments[j].status = t.commitments[j].status
                     /\ j > m \/ j \notin Open => x.commitments[j] = t.commitments[j]
    BY <1>1, <1>2, <1>4
  <2>2. \A j \in Open : j <= m => Want(x, j) = 0 \/ Available(x, i) <= 0
    BY <1>1, <1>2, <1>4
  <2>3. \A j, k \in Open :
          /\ j < k
          /\ k <= m
          /\ x.commitments[k].allocated > t.commitments[k].allocated
          => Want(x, j) = 0
    BY <1>1, <1>2, <1>4
  <2> HIDE DEF m
  <2>4. Turned(t, i, p, m, x)
    BY <1>1, <2>1, <2>2, <2>3 DEF Turned, D, Open
  <2> QED BY <1>4, <2>4 DEF m, Open
<1>5. CASE m \in Open
  <2> DEFINE u == Serve(x, m)
  <2>1. Awaiting(x, m) /\ m \in DOMAIN x.commitments /\ i = x.commitments[m].item
    BY <1>1, <1>2, <1>5 DEF Awaiting
  <2>2. /\ u \in ExactTables(p) /\ u \in SoundTables
        /\ DOMAIN u.commitments = DOMAIN x.commitments
        /\ \A j \in DOMAIN x.commitments : j # m => u.commitments[j] = x.commitments[j]
        /\ u.commitments[m].item = i
        /\ u.commitments[m].status = x.commitments[m].status
        /\ Want(u, m) = 0 \/ Available(u, i) <= 0
        /\ Available(u, i) <= Available(x, i)
        /\ u.commitments[m].allocated > x.commitments[m].allocated => Available(x, i) > 0
    <3> HIDE DEF u, m
    <3> QED BY <1>1, <2>1, ServeEffect DEF u
  <2> HIDE DEF u
  <2>3. Available(u, i) \in Int /\ Available(x, i) \in Int
    <3>1. u \in TablesType /\ x \in TablesType
      BY <1>1, <2>2 DEF SoundTables
    <3> QED BY <3>1 DEF Available, TablesType
  <2>4. \A j \in D : j # m => u.commitments[j] = x.commitments[j] /\ Want(u, j) = Want(x, j)
    BY <1>1, <2>2 DEF Want, Outstanding
  <2>5. \A j \in D : /\ u.commitments[j].item = t.commitments[j].item
                     /\ u.commitments[j].status = t.commitments[j].status
                     /\ j > m \/ j \notin Open => u.commitments[j] = t.commitments[j]
    <3>1. ASSUME NEW j \in D, j > m \/ j \notin Open
          PROVE  j # m /\ (j > n \/ j \notin Open)
      <4>1. j \in Nat
        BY <1>2
      <4> QED BY <1>5, <3>1, <4>1
    <3> HIDE DEF m
    <3> QED BY <1>1, <1>2, <2>1, <2>2, <2>4, <3>1
  <2>6. \A j \in Open : j <= m => Want(u, j) = 0 \/ Available(u, i) <= 0
    <3> HIDE DEF m
    <3> QED BY <1>1, <1>2, <2>2, <2>3, <2>4
  <2>7. ASSUME NEW j \in Open, NEW k \in Open, j < k, k <= m,
               u.commitments[k].allocated > t.commitments[k].allocated
        PROVE  Want(u, j) = 0
    <3>1. j \in D /\ k \in D /\ j \in Nat /\ k \in Nat
      BY <1>2
    <3>2. j # m /\ Want(u, j) = Want(x, j) /\ j <= n
      <4>1. j # m /\ j <= n
        BY <2>7, <3>1
      <4> QED BY <2>4, <3>1, <4>1
    <3>3. CASE k = m
      <4>1. x.commitments[m] = t.commitments[m]
        BY <1>1, <1>2
      <4>2. Available(x, i) > 0
        BY <2>2, <2>7, <3>3, <4>1
      <4> QED BY <1>1, <2>3, <3>2, <4>2
    <3>4. CASE k # m
      <4>1. k <= n /\ u.commitments[k] = x.commitments[k]
        BY <1>2, <2>4, <2>7, <3>1, <3>4
      <4> QED BY <1>1, <2>7, <3>2, <4>1
    <3> QED BY <3>3, <3>4
  <2> HIDE DEF m
  <2>8. Turned(t, i, p, m, u)
    BY <1>1, <2>2, <2>5, <2>6, <2>7 DEF Turned, D, Open
  <2> QED BY <1>5, <2>8 DEF m, Open, u
<1> QED BY <1>4, <1>5

\* The whole loop: what it leaves wanting, it leaves nothing free for, and it
\* serves no promise while an older one is left wanting.
LEMMA AllocateServes ==
  ASSUME NEW p \in [Item -> Nat], NEW t \in ExactTables(p), t \in SoundTables, NEW i \in Item
  PROVE  Turned(t, i, p, Len(t.commitments), Allocate(t, i))
<1> DEFINE N == Len(t.commitments)
<1>0. /\ t \in TablesType /\ t.commitments \in Seq(Commitment)
      /\ N \in Nat /\ DOMAIN t.commitments = 1 .. N
  <2>1. t \in TablesType /\ t.commitments \in Seq(Commitment)
    BY DEF ExactTables, TablesType
  <2> QED BY <2>1
<1>1. PICK f :
         /\ f[0] = t
         /\ f[N] = Allocate(t, i)
         /\ \A k \in 1 .. N :
              f[k] = IF k \in OpenFor(t, i) THEN Serve(f[k - 1], k) ELSE f[k - 1]
  BY <1>0, AllocateTurns
<1> DEFINE Good == {n \in 0 .. N : Turned(t, i, p, n, f[n])}
<1>2. 0 \in Good
  <2>1. \A j \in OpenFor(t, i) : j \in 1 .. N
    BY <1>0 DEF OpenFor
  <2> HIDE DEF N
  <2>2. Turned(t, i, p, 0, t)
    BY <1>0, <2>1 DEF Turned
  <2> QED BY <1>0, <1>1, <2>2
<1> HIDE DEF N
<1>3. ASSUME NEW n \in 0 .. N, n # N, n \in Good PROVE n + 1 \in Good
  <2>1. n + 1 \in 1 .. N /\ (n + 1) - 1 = n /\ n + 1 \in 0 .. N /\ n \in Nat
    BY <1>0, <1>3
  <2>2. f[n + 1] = IF n + 1 \in OpenFor(t, i) THEN Serve(f[n], n + 1) ELSE f[n]
    BY <1>1, <2>1
  <2>3. Turned(t, i, p, n, f[n]) /\ n + 1 \in DOMAIN t.commitments
    BY <1>0, <1>3, <2>1
  <2>4. Turned(t, i, p, n + 1, f[n + 1])
    BY <1>0, <2>1, <2>2, <2>3, TurnedStep
  <2> QED BY <2>1, <2>4
<1>4. 0 .. N \subseteq Good
  <2> HIDE DEF Good
  <2> QED BY <1>0, <1>2, <1>3, UpTo
<1>5. N \in Good
  BY <1>0, <1>4
<1> QED BY <1>1, <1>5 DEF N

\* From t to u nothing more is put aside for any promise.
NobodyServed(t, u) ==
  \A k \in DOMAIN t.commitments :
    k \in DOMAIN u.commitments /\ u.commitments[k].allocated <= t.commitments[k].allocated

\* Requests that leave the promises alone serve nobody.
LEMMA SameServed ==
  ASSUME NEW t \in TablesType, NEW u, u.commitments = t.commitments
  PROVE  NobodyServed(t, u)
<1>1. \A k \in DOMAIN t.commitments : t.commitments[k].allocated \in Nat
  BY CommitmentRow
<1> QED BY <1>1 DEF NobodyServed

\* Nor does one that writes over a promise and puts no more aside for it.
LEMMA RowServed ==
  ASSUME NEW t \in TablesType, NEW k \in DOMAIN t.commitments, NEW row, NEW u,
         u.commitments = [t.commitments EXCEPT ![k] = row],
         row.allocated <= t.commitments[k].allocated
  PROVE  NobodyServed(t, u)
<1>1. \A j \in DOMAIN t.commitments : t.commitments[j].allocated \in Nat
  BY CommitmentRow
<1>2. t.commitments \in Seq(Commitment)
  BY DEF TablesType
<1> QED BY <1>1, <1>2 DEF NobodyServed

\* What a cancelled promise had is given up.
LEMMA CancelServed ==
  ASSUME NEW t \in TablesType, NEW k \in DOMAIN t.commitments
  PROVE  NobodyServed(t, Cancel(t, k))
<1> DEFINE row == t.commitments[k]
           u == Consume(t, row.item, row.client, row.allocated, "released")
           gone == [row EXCEPT !.status = "cancelled", !.allocated = 0]
<1>1. row \in Commitment /\ row.item \in Item /\ row.allocated \in Nat
  BY CommitmentRow
<1>2. u \in TablesType /\ u.commitments = t.commitments
  <2>1. u \in TablesType
    BY <1>1, ConsumeType DEF HoldStatus
  <2> QED BY <1>1, <2>1, HoldsOnly
<1>3. Cancel(t, k) = [u EXCEPT !.commitments[k] = gone]
  BY DEF Cancel
<1>4. gone.allocated = 0
  BY <1>1 DEF Commitment
<1> HIDE DEF u, gone
<1>5. Cancel(t, k).commitments = [t.commitments EXCEPT ![k] = gone]
  BY <1>2, <1>3 DEF TablesType
<1>6. gone.allocated <= t.commitments[k].allocated
  BY <1>1, <1>4
<1> QED BY <1>5, <1>6, RowServed

\* What is handed over is taken from what was put aside.
LEMMA HandOverServed ==
  ASSUME NEW t \in TablesType, NEW k \in DOMAIN t.commitments, NEW q \in Nat \ {0},
         q <= t.quantity[t.commitments[k].item]
  PROVE  NobodyServed(t, HandOver(t, k, q))
<1> DEFINE row  == t.commitments[k]
           gone == [t EXCEPT !.quantity[row.item] = @ - q, !.sales[row.sale].moved = @ - q]
           u    == Consume(gone, row.item, row.client, q, "collected")
           left == AtLeastZero(row.allocated - q)
           done == row.fulfilled + q
           new  == IF done >= row.ordered
                   THEN [row EXCEPT !.fulfilled = row.ordered, !.allocated = left,
                                    !.status = "fulfilled"]
                   ELSE [row EXCEPT !.fulfilled = done, !.allocated = left]
<1>1. row \in Commitment /\ row.item \in Item /\ row.allocated \in Nat
  BY CommitmentRow
<1>2. u \in TablesType /\ u.commitments = t.commitments
  <2>1. gone \in TablesType
    BY DepartedType
  <2>2. gone.commitments = t.commitments
    BY DEF TablesType
  <2> HIDE DEF gone
  <2>3. u \in TablesType
    BY <1>1, <2>1, ConsumeType DEF HoldStatus
  <2>4. u.commitments = gone.commitments
    BY <1>1, <2>1, HoldsOnly
  <2> QED BY <2>2, <2>3, <2>4
<1>3. HandOver(t, k, q) = [u EXCEPT !.commitments[k] = new]
  <2>1. HandOver(t, k, q) = MarkFulfilled(u, k, q)
    BY DEF HandOver
  <2> HIDE DEF u
  <2> QED BY <1>2, <2>1 DEF MarkFulfilled
<1>4. new.allocated = left /\ left <= row.allocated
  <2>1. left <= row.allocated
    BY <1>1 DEF AtLeastZero
  <2> HIDE DEF left, done
  <2> QED BY <1>1, <2>1 DEF Commitment
<1> HIDE DEF u, new
<1>5. HandOver(t, k, q).commitments = [t.commitments EXCEPT ![k] = new]
  BY <1>2, <1>3 DEF TablesType
<1>6. new.allocated <= t.commitments[k].allocated
  BY <1>4
<1> QED BY <1>5, <1>6, RowServed

\* A sale that is taken back cancels at most what it promised.
LEMMA UndoneServed ==
  ASSUME NEW t \in TablesType, NEW s \in DOMAIN t.sales, NEW status \in SaleStatus
  PROVE  Undone(t, s, status) \in TablesType /\ NobodyServed(t, Undone(t, s, status))
<1> DEFINE back == PutBack(t, s, Delivered(t, s))
           u == Undone(t, s, status)
<1>1. back \in TablesType /\ back.commitments = t.commitments
  <2>1. back \in TablesType
    BY DeliveredType, PutBackType
  <2> QED BY <2>1, OtherColumns
<1>2. Unwind(t, s) \in TablesType /\ s \in Nat
  <2>1. s \in Nat
    BY DEF TablesType
  <2> QED BY <2>1, UnwindType
<1>3. u \in TablesType
  BY <1>2, RestatusType DEF Undone
<1>4. u.commitments = Unwind(t, s).commitments
  BY <1>2 DEF Undone, TablesType
<1>5. NobodyServed(back, Unwind(t, s))
  <2>1. NobodyServed(back, CancelForInvoice(back, s))
    <3> HIDE DEF back
    <3> QED BY <1>1, CancelForInvoiceCases, CancelServed, SameServed
  <2> QED BY <2>1 DEF Unwind
<1> HIDE DEF back, u
<1> QED BY <1>1, <1>3, <1>4, <1>5 DEF NobodyServed, u

\* A new sale adds its promise at the end.
LEMMA RingServed ==
  ASSUME NEW t \in TablesType, NEW i \in Item, NEW c \in Buyer, NEW q \in Nat \ {0},
         NEW backorder \in BOOLEAN, CanRing(t, i, c, q, backorder)
  PROVE  NobodyServed(t, Ring(t, i, c, q))
<1> DEFINE u == Drawing(t, i, c, q)
           short == Lesser(Short(t, i, c, q), q)
           row == [sale |-> Len(t.sales) + 1, item |-> i, client |-> c, ordered |-> short,
                   fulfilled |-> 0, allocated |-> 0, status |-> "awaiting"]
<1>1. u \in TablesType /\ u.commitments = t.commitments
  <2>1. Gone(t, i, c, q) \in TablesType /\ Gone(t, i, c, q).commitments = t.commitments
    BY GoneType, OtherColumns
  <2>2. u.commitments = Gone(t, i, c, q).commitments
    BY <2>1, HoldsOnly DEF Drawing
  <2> QED BY <2>1, <2>2, RingType
<1>2. \/ Ring(t, i, c, q) = u
      \/ Ring(t, i, c, q) = Promise(u, Len(t.sales) + 1, i, c, short)
  BY RingParts
<1>3. Promise(u, Len(t.sales) + 1, i, c, short).commitments = Append(t.commitments, row)
  <2> HIDE DEF u, short
  <2> QED BY <1>1 DEF Promise, TablesType
<1>4. CASE Ring(t, i, c, q) = u
  BY <1>1, <1>4, SameServed
<1>5. CASE Ring(t, i, c, q) = Promise(u, Len(t.sales) + 1, i, c, short)
  <2>1. Ring(t, i, c, q).commitments = Append(t.commitments, row)
    BY <1>3, <1>5
  <2>2. t.commitments \in Seq(Commitment)
    BY DEF TablesType
  <2>3. \A k \in DOMAIN t.commitments : t.commitments[k].allocated \in Nat
    BY CommitmentRow
  <2> HIDE DEF row
  <2> QED BY <2>1, <2>2, <2>3 DEF NobodyServed
<1> QED BY <1>2, <1>4, <1>5

\* No request serves a promise while an older one of its item is left wanting.
LEMMA OldestFirst ==
  ASSUME NEW p \in [Item -> Nat], NEW t \in ExactTables(p), t \in SoundTables,
         NEW u \in TablesType, Request(t, u),
         NEW k \in DOMAIN t.commitments, NEW j \in 1 .. k - 1,
         u.commitments[k].allocated > t.commitments[k].allocated,
         t.commitments[j].item = t.commitments[k].item,
         Awaiting(t, j)
  PROVE  Want(u, j) = 0
<1>1. t \in TablesType
  BY DEF ExactTables
<1>2. ASSUME NobodyServed(t, u) PROVE FALSE
  <2>1. t.commitments[k].allocated \in Nat /\ k \in DOMAIN u.commitments
        /\ u.commitments[k].allocated <= t.commitments[k].allocated
    BY <1>1, <1>2, CommitmentRow DEF NobodyServed
  <2>2. u.commitments[k].allocated \in Nat
    BY <2>1, CommitmentRow
  <2> QED BY <2>1, <2>2
<1>3. CASE \E w \in TablesType, i \in Item : SameButShelf(t, w) /\ u = Allocate(w, i)
  <2>1. PICK w \in TablesType, i \in Item : SameButShelf(t, w) /\ u = Allocate(w, i)
    BY <1>3
  <2>2. w.commitments = t.commitments /\ w \in ExactTables(p) /\ w \in SoundTables
    BY <2>1, SameExact, SameSound DEF SameButShelf
  <2>3. Turned(w, i, p, Len(w.commitments), u)
    BY <2>1, <2>2, AllocateServes
  <2>4. t.commitments \in Seq(Commitment)
    BY <1>1 DEF TablesType
  <2>5. j \in DOMAIN t.commitments /\ j < k /\ k <= Len(w.commitments)
    BY <2>2, <2>4
  <2>6. k \in OpenFor(w, i)
    <3>1. t.commitments[k].allocated \in Nat
      BY <1>1, CommitmentRow
    <3>2. u.commitments[k] # t.commitments[k]
      BY <3>1
    <3> QED BY <2>2, <2>3, <3>2 DEF Turned
  <2>7. j \in OpenFor(w, i)
    BY <2>2, <2>5, <2>6 DEF OpenFor, Awaiting
  <2> QED BY <2>2, <2>3, <2>5, <2>6, <2>7 DEF Turned
<1>4. CASE \/ \E i \in Item, c \in Client, q \in Nat \ {0} :
                CanHold(t, i, q) /\ u = PlaceHold(t, i, c, q)
           \/ \E h \in DOMAIN t.holds : u = Close(t, h, "released")
           \/ u \in TablesType /\ SameButShelf(t, u)
  <2>1. u.commitments = t.commitments
    BY <1>1, <1>4, HoldsOnly DEF SameButShelf
  <2> QED BY <1>1, <1>2, <2>1, SameServed
<1>5. CASE \E i \in Item, c \in Buyer, q \in Nat \ {0}, backorder \in BOOLEAN :
             CanRing(t, i, c, q, backorder) /\ u = Ring(t, i, c, q)
  BY <1>1, <1>2, <1>5, RingServed
<1>6. CASE \E s \in DOMAIN t.sales :
             t.sales[s].status = "completed" /\ u = Undone(t, s, "returned")
  BY <1>1, <1>2, <1>6, UndoneServed DEF SaleStatus
<1>7. CASE \E s \in DOMAIN t.sales, i \in Item, c \in Buyer, q \in Nat \ {0},
              backorder \in BOOLEAN :
             /\ t.sales[s].status = "completed"
             /\ CanRing(Undone(t, s, "amended"), i, c, q, backorder)
             /\ u = Ring(Undone(t, s, "amended"), i, c, q)
  <2>1. PICK s \in DOMAIN t.sales, i \in Item, c \in Buyer, q \in Nat \ {0},
             backorder \in BOOLEAN :
               /\ t.sales[s].status = "completed"
               /\ CanRing(Undone(t, s, "amended"), i, c, q, backorder)
               /\ u = Ring(Undone(t, s, "amended"), i, c, q)
    BY <1>7
  <2>2. PICK v : v = Undone(t, s, "amended")
    OBVIOUS
  <2>3. v \in TablesType /\ NobodyServed(t, v)
    BY <1>1, <2>2, UndoneServed DEF SaleStatus
  <2>4. NobodyServed(v, u) /\ u \in TablesType
    BY <2>1, <2>2, <2>3, RingServed, RingType
  <2>5. ASSUME NEW x \in DOMAIN t.commitments
        PROVE  /\ x \in DOMAIN u.commitments
               /\ u.commitments[x].allocated <= t.commitments[x].allocated
    <3>1. /\ x \in DOMAIN v.commitments /\ x \in DOMAIN u.commitments
          /\ v.commitments[x].allocated <= t.commitments[x].allocated
          /\ u.commitments[x].allocated <= v.commitments[x].allocated
      BY <2>3, <2>4 DEF NobodyServed
    <3>2. /\ t.commitments[x].allocated \in Nat
          /\ v.commitments[x].allocated \in Nat
          /\ u.commitments[x].allocated \in Nat
      BY <1>1, <2>3, <2>4, <3>1, CommitmentRow
    <3> QED BY <3>1, <3>2
  <2> QED BY <1>2, <2>5 DEF NobodyServed
<1>8. CASE \E x \in DOMAIN t.commitments, q \in Nat \ {0} :
             /\ Awaiting(t, x)
             /\ q <= Outstanding(t, x)
             /\ q <= t.commitments[x].allocated
             /\ q <= t.quantity[t.commitments[x].item]
             /\ u = HandOver(t, x, q)
  BY <1>1, <1>2, <1>8, HandOverServed
<1>9. CASE \E x \in DOMAIN t.commitments : Awaiting(t, x) /\ u = Cancel(t, x)
  BY <1>1, <1>2, <1>9, CancelServed
<1> QED BY <1>3, <1>4, <1>5, <1>6, <1>7, <1>8, <1>9 DEF Request

\* What the invariants say of the tables, as the lemmas above use it.
LEMMA InvariantTables ==
  ASSUME TypeOK, CounterIsTheHolds, PromisesAddUp, NEW t, t = Tables
  PROVE  \E p \in [Item -> Nat] : t \in ExactTables(p) /\ t \in SoundTables
<1>1. /\ t \in TablesType /\ t.reserved = reserved /\ t.commitments = commitments
  BY TablesTyped
<1>2. PICK p \in [Item -> Nat] : p = [i \in Item |-> 0]
  OBVIOUS
<1>3. ASSUME NEW i \in Item PROVE t.reserved[i] = CustomerHeld(t, i) + p[i]
  <2>1. t.reserved[i] = CustomerHeld(t, i) /\ p[i] = 0
    BY <1>1, <1>2 DEF CounterIsTheHolds
  <2>2. CustomerHeld(t, i) \in Nat
    BY <1>1, HeldNat DEF CustomerHeld
  <2> QED BY <2>1, <2>2
<1>4. t \in SoundTables
  BY <1>1 DEF SoundTables, Sound, PromisesAddUp
<1> QED BY <1>1, <1>3, <1>4 DEF ExactTables, Exact

\* Stock that is put aside goes to the oldest promise first, however many wait
\* for an item, in every step of every history: no step serves a promise while
\* an older one of the same item is left wanting (commitments.py, allocate).
THEOREM ShopOldestPromiseFirst == ShopSpec => OldestPromiseFirst
<1> DEFINE Served ==
      \A k \in DOMAIN commitments : \A j \in 1 .. k - 1 :
        /\ commitments'[k].allocated > commitments[k].allocated
        /\ commitments[j].item = commitments[k].item
        /\ Awaiting(Tables, j)
        => Want(Tables', j) = 0
<1>1. TypeOK /\ CounterIsTheHolds /\ PromisesAddUp /\ [ShopNext]_shopVars => Served
  <2> SUFFICES ASSUME TypeOK, CounterIsTheHolds, PromisesAddUp, [ShopNext]_shopVars,
                      NEW k \in DOMAIN commitments, NEW j \in 1 .. k - 1,
                      commitments'[k].allocated > commitments[k].allocated,
                      commitments[j].item = commitments[k].item,
                      Awaiting(Tables, j)
               PROVE  Want(Tables', j) = 0
    OBVIOUS
  <2>1. PICK t, u : t = Tables /\ u = Tables'
    OBVIOUS
  <2>2. PICK p \in [Item -> Nat] : t \in ExactTables(p) /\ t \in SoundTables
    BY <2>1, InvariantTables
  <2>3. Request(t, u)
    BY <2>1, StepIsRequest
  <2>4. t.commitments = commitments /\ u.commitments = commitments'
    BY <2>1 DEF Tables
  <2>5. u \in TablesType
    <3>1. ExactTables(p) \in SUBSET TablesType
      BY DEF ExactTables
    <3>2. Keeps(ExactTables(p))
      BY ExactKeeps
    <3>3. Tables' \in ExactTables(p)
      BY <2>1, <2>2, <3>1, <3>2, StepKeeps
    <3> QED BY <2>1, <3>1, <3>3
  <2>6. Want(u, j) = 0
    BY <2>1, <2>2, <2>3, <2>4, <2>5, OldestFirst
  <2> QED BY <2>1, <2>6
<1> QED
  BY <1>1, ShopTypeOK, ShopCounterIsTheHolds, ShopPromisesAddUp, PTL
     DEF ShopSpec, OldestPromiseFirst

\* Goods that land leave nothing free while a promise of them is left wanting.
LEMMA LandServes ==
  ASSUME NEW p \in [Item -> Nat], NEW t \in ExactTables(p), t \in SoundTables,
         NEW x \in Purchase, NEW q \in Nat, NEW u, u = Land(t, x, q)
  PROVE  \A k \in OpenFor(u, Buys[x]) : Want(u, k) = 0 \/ Available(u, Buys[x]) <= 0
<1> DEFINE i == Buys[x]
<1>1. t \in TablesType /\ i \in Item
  BY ShopAssumption DEF ExactTables
<1>2. PICK w \in TablesType : SameButShelf(t, w) /\ u = Allocate(w, i)
  BY <1>1, LandShelf
<1> HIDE DEF i
<1>3. w.commitments = t.commitments /\ w \in ExactTables(p) /\ w \in SoundTables
  BY <1>2, SameExact, SameSound DEF SameButShelf
<1>4. Turned(w, i, p, Len(w.commitments), u)
  BY <1>1, <1>2, <1>3, AllocateServes
<1>5. ASSUME NEW k \in OpenFor(u, i) PROVE k \in OpenFor(w, i) /\ k <= Len(w.commitments)
  <2>1. k \in DOMAIN w.commitments
    BY <1>4 DEF Turned, OpenFor
  <2>2. k \in OpenFor(w, i)
    BY <1>4, <2>1 DEF Turned, OpenFor, Awaiting
  <2>3. w.commitments \in Seq(Commitment)
    BY DEF TablesType
  <2> QED BY <2>1, <2>2, <2>3
<1> QED BY <1>4, <1>5 DEF Turned, i

\* A step that counts goods in lands them.
LEMMA CountedIn ==
  ASSUME TypeOK, ShopNext, NEW x \in Purchase, purchases'[x].moved > purchases[x].moved
  PROVE  \E v \in TablesType, q \in Nat :
           /\ SameButShelf(Tables, v)
           /\ Commit(Land(v, x, q))
<1>1. /\ Tables \in TablesType
      /\ purchases \in [Purchase -> PurchaseRow]
      /\ purchases[x] \in PurchaseRow /\ SameButShelf(Tables, Tables)
  BY TablesTyped DEF SameButShelf
<1>2. purchases[x].moved \in Int /\ purchases[x].quantity \in Nat
  BY <1>1 DEF PurchaseRow
<1>3. ASSUME UNCHANGED purchases PROVE FALSE
  BY <1>2, <1>3
<1>4. ASSUME NEW p \in Purchase, NEW row, Put(p, row), row.moved = purchases[p].moved
      PROVE  FALSE
  BY <1>1, <1>2, <1>4 DEF Put
<1>5. ASSUME NEW p \in Purchase, NEW row, Put(p, row)
      PROVE  p = x /\ row.moved > purchases[x].moved
  <2>1. purchases'[x] = IF p = x THEN row ELSE purchases[x]
    BY <1>1, <1>5 DEF Put
  <2> QED BY <1>2, <2>1
<1>6. ASSUME NEW p \in Purchase, CreditStock(p)
      PROVE  p = x /\ Commit(Land(Tables, p, purchases[p].quantity))
  <2> DEFINE row  == purchases[p]
             done == [row EXCEPT !.crediting = @ - 1, !.booked = TRUE,
                                 !.status = IF row.voided THEN @ ELSE "Received"]
  <2>1. done.moved = row.moved
    BY <1>1 DEF PurchaseRow
  <2>2. ~Put(p, done)
    <3> HIDE DEF done
    <3> QED BY <1>4, <2>1
  <2>3. /\ Commit(Land(Tables, p, row.quantity))
        /\ Put(p, [done EXCEPT !.stockUpdated = TRUE, !.moved = @ + row.quantity])
    BY <1>6, <2>2 DEF CreditStock
  <2> HIDE DEF done
  <2> QED BY <1>5, <2>3
<1>7. ASSUME NEW p \in Purchase, NEW q \in Quantities, RestatePurchase(p, q)
      PROVE  /\ p = x /\ CanTakeBack(purchases[p], p)
             /\ Commit(Land(TakenBack(Tables, purchases[p], p), p, q))
  <2> DEFINE row == purchases[p]
             net == IF row.stockUpdated THEN row.moved - row.quantity ELSE row.moved
             new == [row EXCEPT !.quantity = q, !.stockUpdated = TRUE,
                                !.booked = row.received, !.moved = net + q]
  <2>1. [row EXCEPT !.quantity = q].moved = row.moved
    BY <1>1 DEF PurchaseRow
  <2>2. ~Put(p, [row EXCEPT !.quantity = q])
    BY <1>4, <2>1
  <2>3. /\ CanTakeBack(row, p)
        /\ Commit(Land(TakenBack(Tables, row, p), p, q))
        /\ Put(p, new)
    BY <1>7, <2>2 DEF RestatePurchase
  <2> HIDE DEF new
  <2> QED BY <1>5, <2>3
<1>8. ASSUME NEW p \in Purchase, VoidPurchase(p) PROVE FALSE
  <2> DEFINE row == purchases[p]
             m   == IF row.stockUpdated THEN row.moved - row.quantity ELSE row.moved
             new == [row EXCEPT !.voided = TRUE, !.stockUpdated = FALSE, !.moved = m]
  <2>1. Put(p, new)
    BY <1>8 DEF VoidPurchase
  <2>2. new.moved = m
    BY <1>1 DEF PurchaseRow
  <2> HIDE DEF new
  <2>3. p = x /\ new.moved > purchases[x].moved
    BY <1>5, <2>1
  <2>4. m <= purchases[x].moved
    BY <1>2, <2>3
  <2> HIDE DEF m
  <2>5. m \in Int
    BY <1>2, <2>3 DEF m
  <2> QED BY <1>2, <2>2, <2>3, <2>4, <2>5
<1>9. ASSUME NEW p \in Purchase, BeginReceipt(p) \/ MarkReceived(p) \/ RepeatReceipt(p)
      PROVE  FALSE
  <2> DEFINE row == purchases[p]
  <2>1. /\ [row EXCEPT !.checked = @ + 1].moved = row.moved
        /\ [row EXCEPT !.checked = @ - 1, !.crediting = @ + 1, !.received = TRUE].moved = row.moved
        /\ [row EXCEPT !.booked = TRUE, !.status = "Received"].moved = row.moved
    BY <1>1 DEF PurchaseRow
  <2>2. \/ Put(p, [row EXCEPT !.checked = @ + 1])
        \/ Put(p, [row EXCEPT !.checked = @ - 1, !.crediting = @ + 1, !.received = TRUE])
        \/ Put(p, [row EXCEPT !.booked = TRUE, !.status = "Received"])
    BY <1>9 DEF BeginReceipt, MarkReceived, RepeatReceipt
  <2> QED BY <1>4, <2>1, <2>2
<1>10. ASSUME NEW p \in Purchase, ReceiptDies(p) PROVE FALSE
  <2> DEFINE row == purchases[p]
  <2>1. /\ [row EXCEPT !.checked = @ - 1].moved = row.moved
        /\ [row EXCEPT !.crediting = @ - 1].moved = row.moved
    BY <1>1 DEF PurchaseRow
  <2>2. \/ Put(p, [row EXCEPT !.checked = @ - 1])
        \/ Put(p, [row EXCEPT !.crediting = @ - 1])
    BY <1>10 DEF ReceiptDies
  <2> QED BY <1>4, <2>1, <2>2
<1>11. CASE \E p \in Purchase : CreditStock(p)
  <2>1. Commit(Land(Tables, x, purchases[x].quantity))
    BY <1>6, <1>11
  <2> QED BY <1>1, <1>2, <2>1
<1>12. CASE \E p \in Purchase, q \in Quantities : RestatePurchase(p, q)
  <2>1. PICK q \in Quantities : /\ CanTakeBack(purchases[x], x)
                                /\ Commit(Land(TakenBack(Tables, purchases[x], x), x, q))
    BY <1>7, <1>12
  <2>2. q \in Nat
    BY ShopAssumption
  <2> QED BY <2>1, <2>2, TakenBackShelf
<1>13. CASE \/ \E i \in Item, c \in Client, q \in Quantities : CreateReservation(i, c, q)
            \/ \E h \in DOMAIN holds : ReleaseReservation(h)
            \/ \E i \in Item, delta \in Adjustments : AdjustStock(i, delta)
            \/ \E i \in Item, c \in Buyer, q \in Quantities, backorder \in BOOLEAN :
                 Checkout(i, c, q, backorder)
            \/ \E s \in DOMAIN sales : UndoSale(s)
            \/ \E s \in DOMAIN sales, i \in Item, c \in Buyer, q \in Quantities,
                  backorder \in BOOLEAN : AmendSale(s, i, c, q, backorder)
            \/ \E k \in DOMAIN commitments, q \in Quantities : Deliver(k, q)
            \/ \E k \in DOMAIN commitments : CancelCommitment(k)
            \/ \E i \in Item : AllocateNow(i)
  BY <1>3, <1>13, Zenon
     DEF CreateReservation, ReleaseReservation, AdjustStock, Checkout, UndoSale, AmendSale,
         Deliver, CancelCommitment, AllocateNow
<1> QED BY <1>8, <1>9, <1>10, <1>11, <1>12, <1>13, Zenon DEF ShopNext

\* When goods land, by a receipt or by its correction, whoever is waiting for
\* them is served in the same step, whatever else happened to the counter and to
\* the promises before (purchases.py, _credit_stock and the call of allocate).
THEOREM ShopReceiptServesTheWaiting == ShopSpec => ReceiptServesTheWaiting
<1>1. TypeOK /\ CounterIsTheHolds /\ PromisesAddUp /\ [ShopNext]_shopVars
        => [\A p \in Purchase :
              purchases'[p].moved > purchases[p].moved =>
                \A k \in OpenFor(Tables', Buys[p]) :
                  Want(Tables', k) = 0 \/ Available(Tables', Buys[p]) <= 0]_shopVars
  <2> SUFFICES ASSUME TypeOK, CounterIsTheHolds, PromisesAddUp, ShopNext,
                      NEW x \in Purchase, purchases'[x].moved > purchases[x].moved
               PROVE  \A k \in OpenFor(Tables', Buys[x]) :
                        Want(Tables', k) = 0 \/ Available(Tables', Buys[x]) <= 0
    OBVIOUS
  <2>1. PICK t, u : t = Tables /\ u = Tables'
    OBVIOUS
  <2>2. PICK p \in [Item -> Nat] : t \in ExactTables(p) /\ t \in SoundTables
    BY <2>1, InvariantTables
  <2>3. PICK v \in TablesType, q \in Nat : SameButShelf(Tables, v) /\ Commit(Land(v, x, q))
    BY CountedIn
  <2>4. v \in ExactTables(p) /\ v \in SoundTables
    BY <2>1, <2>2, <2>3, SameExact, SameSound DEF SameButShelf
  <2>5. u = Land(v, x, q)
    BY <2>1, <2>3, LandType, CommitTables
  <2>6. \A k \in OpenFor(u, Buys[x]) : Want(u, k) = 0 \/ Available(u, Buys[x]) <= 0
    BY <2>4, <2>5, LandServes
  <2> QED BY <2>1, <2>6
<1> QED
  BY <1>1, ShopTypeOK, ShopCounterIsTheHolds, ShopPromisesAddUp, PTL
     DEF ShopSpec, ReceiptServesTheWaiting
-----------------------------------------------------------------------------
(***************************************************************************)
(* Whose stock a sale may take.  What is sellable to a customer is what    *)
(* nobody else holds, as long as the counter counts every hold; drawing    *)
(* the buyer's own holds leaves the rows of the others as they were, and   *)
(* taking a sale back gives goods to the shelf and draws only the holds of *)
(* the customer it was promised to.                                        *)
(***************************************************************************)

\* The rows of u are those of t, some of them closed or drawn in part.
Drained(t, u) ==
  /\ DOMAIN u.holds = DOMAIN t.holds
  /\ \A h \in DOMAIN t.holds :
       /\ u.holds[h].item = t.holds[h].item
       /\ u.holds[h].client = t.holds[h].client
       /\ u.holds[h].quantity <= t.holds[h].quantity
       /\ u.holds[h].status = "held" => t.holds[h].status = "held"

\* Tables with the same rows are drained of nothing.
LEMMA SameDrained ==
  ASSUME NEW t \in TablesType, NEW u, u.holds = t.holds
  PROVE  Drained(t, u)
<1>1. t.holds \in Seq(Hold)
  BY DEF TablesType
<1>2. ASSUME NEW h \in DOMAIN t.holds PROVE t.holds[h].quantity \in Nat
  <2>1. t.holds[h] \in Hold
    BY <1>1
  <2> QED BY <2>1 DEF Hold
<1> QED BY <1>2 DEF Drained

\* Drawing a customer's holds drains them.
LEMMA ConsumeDrained ==
  ASSUME NEW t \in TablesType, NEW i \in Item, NEW c, NEW q \in Int,
         NEW status \in HoldStatus \ {"held"}
  PROVE  Drained(t, Consume(t, i, c, q, status))
<1> DEFINE rows == [h \in DOMAIN t.holds |-> Draw(t.holds[h], Drawn(t, i, c, q)[h], status)]
           u == Consume(t, i, c, q, status)
<1>1. t.holds \in Seq(Hold)
  BY DEF TablesType
<1>2. u = t \/ u.holds = rows
  BY DEF Consume, Sync, TablesType
<1>3. CASE u = t
  BY <1>3, SameDrained
<1>4. CASE u.holds = rows
  <2>1. ASSUME NEW h \in DOMAIN t.holds
        PROVE  /\ rows[h].item = t.holds[h].item
               /\ rows[h].client = t.holds[h].client
               /\ rows[h].quantity <= t.holds[h].quantity
               /\ rows[h].status = "held" => t.holds[h].status = "held"
    <3>1. t.holds[h] \in Hold /\ h \in 1 .. Len(t.holds)
      BY <1>1
    <3>2. Drawn(t, i, c, q)[h] \in Nat
      BY <3>1, DrawnType
    <3>3. t.holds[h].quantity \in Nat
      BY <3>1 DEF Hold
    <3>4. rows[h] = Draw(t.holds[h], Drawn(t, i, c, q)[h], status)
      OBVIOUS
    <3> HIDE DEF rows
    <3> QED BY <3>1, <3>2, <3>3, <3>4 DEF Draw, Hold
  <2>2. DOMAIN rows = DOMAIN t.holds
    OBVIOUS
  <2> HIDE DEF rows, u
  <2> QED BY <1>4, <2>1, <2>2 DEF Drained, u
<1> QED BY <1>2, <1>3, <1>4

\* Tables that are drained hold no more for anybody.
LEMMA DrainedHolds ==
  ASSUME NEW t \in TablesType, NEW u \in TablesType, Drained(t, u), NEW i, NEW who
  PROVE  SeqSum(HeldRows(u, i, who)) <= SeqSum(HeldRows(t, i, who))
<1>1. /\ HeldRows(t, i, who) \in Seq(Int) /\ HeldRows(u, i, who) \in Seq(Int)
      /\ Len(HeldRows(t, i, who)) = Len(t.holds) /\ Len(HeldRows(u, i, who)) = Len(u.holds)
  BY HeldRowsType
<1>2. /\ t.holds \in Seq(Hold) /\ u.holds \in Seq(Hold) /\ Len(u.holds) = Len(t.holds)
      /\ DOMAIN t.holds = 1 .. Len(t.holds)
  BY DEF Drained, TablesType
<1>3. ASSUME NEW h \in 1 .. Len(t.holds)
      PROVE  HeldRows(u, i, who)[h] <= HeldRows(t, i, who)[h]
  <2>1. t.holds[h].quantity \in Nat /\ u.holds[h].quantity \in Nat
    <3>1. t.holds[h] \in Hold /\ u.holds[h] \in Hold
      BY <1>2
    <3> QED BY <3>1 DEF Hold
  <2> QED BY <1>2, <2>1 DEF HeldRows, Drained
<1> QED BY <1>1, <1>2, <1>3, SumAtMost

\* Everything held of an item is held for a given customer or for the others.
LEMMA HeldSplit ==
  ASSUME NEW t \in TablesType, NEW i, NEW c
  PROVE  CustomerHeld(t, i) = HeldForOthers(t, i, c) + HeldFor(t, i, c)
<1> DEFINE all == HeldRows(t, i, Client)
           others == HeldRows(t, i, Client \ {c})
           own == HeldRows(t, i, {c})
<1>1. /\ all \in Seq(Int) /\ others \in Seq(Int) /\ own \in Seq(Int)
      /\ Len(all) = Len(t.holds) /\ Len(others) = Len(t.holds) /\ Len(own) = Len(t.holds)
  BY HeldRowsType
<1>2. t.holds \in Seq(Hold)
  BY DEF TablesType
<1>3. ASSUME NEW h \in 1 .. Len(t.holds) PROVE all[h] = others[h] + own[h]
  <2>1. t.holds[h].client \in Client /\ t.holds[h].quantity \in Nat
    <3>1. t.holds[h] \in Hold
      BY <1>2
    <3> QED BY <3>1 DEF Hold
  <2> QED BY <1>2, <2>1 DEF HeldRows
<1>4. SeqSum(all) = SeqSum(others) + SeqSum(own)
  <2> HIDE DEF all, others, own
  <2> QED BY <1>1, <1>3, SumPlus
<1> QED BY <1>4 DEF CustomerHeld, HeldForOthers, HeldFor

\* What is taken at the till is free or the buyer's own.
LEMMA TakenSpares ==
  ASSUME NEW p \in [Item -> Nat], NEW t \in ExactTables(p), NEW i \in Item,
         NEW c \in Buyer, NEW q \in Nat, Taken(t, i, c, q) > 0
  PROVE  HeldForOthers(t, i, c) <= t.quantity[i] - Taken(t, i, c, q)
<1>1. t \in TablesType /\ t.reserved[i] = CustomerHeld(t, i) + p[i]
  BY DEF ExactTables, Exact
<1>2. t.quantity[i] \in Nat /\ t.reserved[i] \in Nat /\ p[i] \in Nat
  BY <1>1 DEF TablesType
<1>3. HeldForOthers(t, i, c) \in Nat /\ HeldFor(t, i, c) \in Nat
  BY <1>1, HeldNat DEF HeldForOthers, HeldFor
<1>4. CustomerHeld(t, i) = HeldForOthers(t, i, c) + HeldFor(t, i, c)
  BY <1>1, HeldSplit
<1>5. Sellable(t, i, c) = t.quantity[i] - t.reserved[i] + HeldFor(t, i, c)
  BY DEF Sellable, Available
<1>6. Sellable(t, i, c) <= t.quantity[i] - HeldForOthers(t, i, c)
  BY <1>1, <1>2, <1>3, <1>4, <1>5
<1>7. Taken(t, i, c, q) <= Sellable(t, i, c)
  <2>1. Sellable(t, i, c) \in Int
    BY <1>1, TakenType
  <2> QED BY <2>1 DEF Taken, Short, AtLeastZero
<1> QED BY <1>1, <1>2, <1>3, <1>6, <1>7, TakenType

\* A promise that is cancelled gives its hold back.
LEMMA CancelDrained ==
  ASSUME NEW t \in TablesType, NEW k \in DOMAIN t.commitments
  PROVE  Drained(t, Cancel(t, k)) /\ Cancel(t, k).quantity = t.quantity
<1> DEFINE row == t.commitments[k]
           u == Consume(t, row.item, row.client, row.allocated, "released")
<1>1. row.item \in Item /\ row.allocated \in Int
  BY CommitmentRow
<1>2. Drained(t, u)
  BY <1>1, ConsumeDrained DEF HoldStatus
<1>3. u \in TablesType /\ u.quantity = t.quantity
  BY <1>1, ConsumeType, HoldsOnly DEF HoldStatus
<1>4. Cancel(t, k).holds = u.holds /\ Cancel(t, k).quantity = u.quantity
  <2>1. Cancel(t, k) = [u EXCEPT !.commitments[k] =
                          [row EXCEPT !.status = "cancelled", !.allocated = 0]]
    BY DEF Cancel
  <2> HIDE DEF u
  <2> QED BY <1>3, <2>1 DEF TablesType
<1> HIDE DEF u
<1> QED BY <1>2, <1>3, <1>4 DEF Drained

\* Taking a sale back leaves more on the shelf and less of it spoken for.
LEMMA UndoneSpares ==
  ASSUME NEW t \in TablesType, NEW s \in DOMAIN t.sales, NEW status \in SaleStatus,
         NEW i \in Item, NEW c, OthersCovered(t, i, c)
  PROVE  /\ Undone(t, s, status) \in TablesType
         /\ OthersCovered(Undone(t, s, status), i, c)
<1> DEFINE back == PutBack(t, s, Delivered(t, s))
<1>1. Undone(t, s, status) \in TablesType
  BY UndoneServed
<1>2. back \in TablesType /\ back.holds = t.holds
  <2>1. back \in TablesType
    BY DeliveredType, PutBackType
  <2> QED BY <2>1, OtherColumns
<1>3. back.quantity[i] >= t.quantity[i]
  <2>1. Delivered(t, s) \in Int /\ t.quantity \in [Item -> Nat]
    BY DeliveredType DEF TablesType
  <2> QED BY <2>1 DEF PutBack, TablesType
<1>4. Drained(back, Unwind(t, s)) /\ Unwind(t, s).quantity = back.quantity
  <2>1. Unwind(t, s) = CancelForInvoice(back, s)
    BY DEF Unwind
  <2> HIDE DEF back
  <2> QED BY <1>2, <2>1, CancelForInvoiceCases, CancelDrained, SameDrained
<1>5. Unwind(t, s) \in TablesType
  BY UnwindType
<1>6. /\ Undone(t, s, status).holds = Unwind(t, s).holds
      /\ Undone(t, s, status).quantity = Unwind(t, s).quantity
  BY <1>5 DEF Undone, TablesType
<1> HIDE DEF back
<1>7. Drained(t, Undone(t, s, status))
  BY <1>2, <1>4, <1>6 DEF Drained
<1>8. HeldForOthers(Undone(t, s, status), i, c) <= HeldForOthers(t, i, c)
  BY <1>1, <1>7, DrainedHolds DEF HeldForOthers
<1>9. /\ HeldForOthers(Undone(t, s, status), i, c) \in Nat /\ HeldForOthers(t, i, c) \in Nat
      /\ t.quantity[i] \in Nat /\ back.quantity[i] \in Nat
  BY <1>1, <1>2, HeldNat DEF HeldForOthers, TablesType
<1> QED BY <1>1, <1>3, <1>4, <1>6, <1>8, <1>9 DEF OthersCovered

\* A sale leaves the holds of everybody but its buyer covered.
LEMMA RingSpares ==
  ASSUME NEW p \in [Item -> Nat], NEW t \in ExactTables(p), NEW i \in Item,
         NEW c \in Buyer, NEW q \in Nat \ {0}, NEW backorder \in BOOLEAN,
         CanRing(t, i, c, q, backorder), OthersCovered(t, i, c)
  PROVE  OthersCovered(Ring(t, i, c, q), i, c)
<1> DEFINE gone == Gone(t, i, c, q)
           taken == Taken(t, i, c, q)
           drawn == Drawing(t, i, c, q)
<1>1. t \in TablesType /\ taken \in Nat
  BY TakenType DEF ExactTables
<1>2. gone \in TablesType /\ gone.holds = t.holds
  BY <1>1, GoneType, OtherColumns
<1>3. gone.quantity[i] = t.quantity[i] - taken
  BY <1>1 DEF Gone, TablesType
<1>4. drawn \in TablesType /\ drawn.quantity = gone.quantity /\ Drained(gone, drawn)
  <2>1. drawn = Consume(gone, i, c, taken, "collected")
    BY DEF Drawing
  <2>2. drawn \in TablesType
    BY <1>1, RingType
  <2> HIDE DEF gone, taken, drawn
  <2> QED BY <1>1, <1>2, <2>1, <2>2, HoldsOnly, ConsumeDrained DEF HoldStatus
<1>5. HeldForOthers(drawn, i, c) <= HeldForOthers(t, i, c)
  <2>1. Drained(t, drawn)
    BY <1>2, <1>4 DEF Drained
  <2> QED BY <1>1, <1>4, <2>1, DrainedHolds DEF HeldForOthers
<1>6. HeldForOthers(t, i, c) <= t.quantity[i] - taken
  <2>1. t.quantity[i] \in Nat
    BY <1>1 DEF TablesType
  <2>2. CASE taken = 0
    BY <2>1, <2>2 DEF OthersCovered
  <2>3. CASE taken > 0
    BY <2>3, TakenSpares
  <2> QED BY <1>1, <2>2, <2>3
<1>7. HeldForOthers(drawn, i, c) \in Nat /\ HeldForOthers(t, i, c) \in Nat
      /\ t.quantity[i] \in Nat
  BY <1>1, <1>4, HeldNat DEF HeldForOthers, TablesType
<1>8. OthersCovered(drawn, i, c)
  BY <1>1, <1>3, <1>4, <1>5, <1>6, <1>7 DEF OthersCovered
<1>9. Ring(t, i, c, q).holds = drawn.holds /\ Ring(t, i, c, q).quantity = drawn.quantity
  <2> HIDE DEF drawn
  <2>1. \A x, y, z, w : /\ Promise(drawn, x, y, z, w).holds = drawn.holds
                        /\ Promise(drawn, x, y, z, w).quantity = drawn.quantity
    BY <1>4 DEF Promise, TablesType
  <2>2. Ring(t, i, c, q) = drawn \/ \E x, w : Ring(t, i, c, q) = Promise(drawn, x, i, c, w)
    BY <1>1, RingParts DEF drawn
  <2> QED BY <2>1, <2>2
<1>10. HeldForOthers(Ring(t, i, c, q), i, c) = HeldForOthers(drawn, i, c)
  BY <1>9, HeldByRows DEF HeldForOthers
<1> QED BY <1>8, <1>9, <1>10 DEF OthersCovered

\* A new sale is the last row, with the item and the customer it was rung for.
LEMMA RingRow ==
  ASSUME NEW t \in TablesType, NEW i \in Item, NEW c \in Buyer, NEW q \in Nat \ {0},
         NEW backorder \in BOOLEAN, CanRing(t, i, c, q, backorder),
         NEW u, u = Ring(t, i, c, q), NEW s \in DOMAIN u.sales, s \notin DOMAIN t.sales
  PROVE  u.sales[s].item = i /\ u.sales[s].client = c
<1> DEFINE row == [item |-> i, client |-> c, quantity |-> q, status |-> "completed",
                   moved |-> -Taken(t, i, c, q)]
           gone == Gone(t, i, c, q)
           drawn == Drawing(t, i, c, q)
<1>1. gone \in TablesType /\ gone.sales = Append(t.sales, row)
  <2>1. gone \in TablesType
    BY GoneType
  <2>2. gone = [t EXCEPT !.quantity[i] = @ - Taken(t, i, c, q), !.sales = Append(@, row)]
    BY DEF Gone
  <2> HIDE DEF gone, row
  <2>3. gone.sales = Append(t.sales, row)
    BY <2>2 DEF TablesType
  <2> QED BY <2>1, <2>3
<1>2. drawn \in TablesType /\ drawn.sales = gone.sales
  <2>1. drawn \in TablesType
    BY RingType
  <2> HIDE DEF gone, drawn
  <2> QED BY <1>1, <2>1, HoldsOnly DEF Drawing, drawn, gone
<1>3. u.sales = drawn.sales
  <2> HIDE DEF drawn
  <2>1. \A x, y, z, w : Promise(drawn, x, y, z, w).sales = drawn.sales
    BY <1>2 DEF Promise, TablesType
  <2>2. u = drawn \/ \E x, w : u = Promise(drawn, x, i, c, w)
    BY RingParts DEF drawn
  <2> QED BY <2>1, <2>2
<1>4. t.sales \in Seq(Sale)
  BY DEF TablesType
<1>5. row.item = i /\ row.client = c
  OBVIOUS
<1>6. u.sales = Append(t.sales, row)
  BY <1>1, <1>2, <1>3
<1> HIDE DEF row
<1> QED BY <1>4, <1>5, <1>6

\* Serving those who wait rings no sale.
LEMMA AllocateSales ==
  ASSUME NEW t \in TablesType, NEW i \in Item
  PROVE  Allocate(t, i).sales = t.sales
<1> DEFINE G == {x \in TablesType : x.sales = t.sales}
<1>1. ASSUME NEW k \in OpenFor(t, i), NEW x \in G,
             x \in TablesType, DOMAIN x.commitments = DOMAIN t.commitments
      PROVE  Serve(x, k) \in G
  <2>1. k \in DOMAIN x.commitments
    BY <1>1 DEF OpenFor
  <2>2. Serve(x, k) \in TablesType
    BY <1>1, <2>1, ServeType
  <2>3. \A j, c, q : PlaceHold(x, j, c, q).sales = x.sales
    BY <1>1, HoldsOnly
  <2>4. Serve(x, k).sales = x.sales
    BY <2>3 DEF Serve, PlaceHold, Sync
  <2> QED BY <1>1, <2>2, <2>4
<1>2. t \in G
  OBVIOUS
<1>3. Allocate(t, i) \in G
  <2> HIDE DEF G
  <2> QED BY <1>1, <1>2, AllocateKeeps
<1> QED BY <1>3

\* Taking a sale back leaves the others where they are.
LEMMA UndoneSales ==
  ASSUME NEW t \in TablesType, NEW s \in DOMAIN t.sales, NEW status \in SaleStatus
  PROVE  DOMAIN Undone(t, s, status).sales = DOMAIN t.sales
<1> DEFINE back == PutBack(t, s, Delivered(t, s))
<1>1. back \in TablesType /\ DOMAIN back.sales = DOMAIN t.sales
  <2>1. back \in TablesType
    BY DeliveredType, PutBackType
  <2> QED BY <2>1 DEF PutBack, TablesType
<1>2. Unwind(t, s).sales = back.sales
  <2>1. Unwind(t, s) = CancelForInvoice(back, s)
    BY DEF Unwind
  <2> HIDE DEF back
  <2> QED BY <1>1, <2>1, CancelForInvoiceCases, CancelColumns
<1>3. Unwind(t, s) \in TablesType
  BY UnwindType
<1>4. DOMAIN Undone(t, s, status).sales = DOMAIN Unwind(t, s).sales
  BY <1>3 DEF Undone, TablesType
<1> QED BY <1>1, <1>2, <1>4

\* Nor is a sale rung by a handover.
LEMMA HandOverSales ==
  ASSUME NEW t \in TablesType, NEW k \in DOMAIN t.commitments, NEW q \in Nat \ {0},
         q <= t.quantity[t.commitments[k].item]
  PROVE  DOMAIN HandOver(t, k, q).sales = DOMAIN t.sales
<1> DEFINE row  == t.commitments[k]
           gone == [t EXCEPT !.quantity[row.item] = @ - q, !.sales[row.sale].moved = @ - q]
           u    == Consume(gone, row.item, row.client, q, "collected")
<1>1. gone \in TablesType /\ DOMAIN gone.sales = DOMAIN t.sales
  BY DepartedType DEF TablesType
<1>2. row.item \in Item
  BY CommitmentRow
<1>3. u.sales = gone.sales
  <2> HIDE DEF gone
  <2> QED BY <1>1, HoldsOnly
<1>4. u \in TablesType
  <2> HIDE DEF gone
  <2> QED BY <1>1, <1>2, ConsumeType DEF HoldStatus
<1>5. HandOver(t, k, q) = MarkFulfilled(u, k, q)
  BY DEF HandOver
<1>6. MarkFulfilled(u, k, q).sales = u.sales
  <2> HIDE DEF u
  <2> QED BY <1>4 DEF MarkFulfilled, TablesType
<1> QED BY <1>1, <1>3, <1>5, <1>6

\* A request that rings a sale leaves what others hold covered.
LEMMA SaleSpares ==
  ASSUME NEW p \in [Item -> Nat], NEW t \in ExactTables(p), NEW u, Request(t, u),
         NEW s \in DOMAIN u.sales, s \notin DOMAIN t.sales,
         NEW i, i = u.sales[s].item, NEW c, c = u.sales[s].client,
         OthersCovered(t, i, c)
  PROVE  OthersCovered(u, i, c)
<1>1. t \in TablesType
  BY DEF ExactTables
<1>2. DOMAIN u.sales # DOMAIN t.sales
  OBVIOUS
<1>3. CASE \/ \E x \in Item, d \in Client, q \in Nat \ {0} :
                CanHold(t, x, q) /\ u = PlaceHold(t, x, d, q)
           \/ \E h \in DOMAIN t.holds : u = Close(t, h, "released")
           \/ u \in TablesType /\ SameButShelf(t, u)
  BY <1>1, <1>2, <1>3, HoldsOnly DEF SameButShelf
<1>4. CASE \E w \in TablesType, x \in Item : SameButShelf(t, w) /\ u = Allocate(w, x)
  BY <1>2, <1>4, AllocateSales DEF SameButShelf
<1>5. CASE \E x \in Item, d \in Buyer, q \in Nat \ {0}, backorder \in BOOLEAN :
             CanRing(t, x, d, q, backorder) /\ u = Ring(t, x, d, q)
  <2>1. PICK x \in Item, d \in Buyer, q \in Nat \ {0}, backorder \in BOOLEAN :
               CanRing(t, x, d, q, backorder) /\ u = Ring(t, x, d, q)
    BY <1>5
  <2>2. x = i /\ d = c
    BY <1>1, <2>1, RingRow
  <2> QED BY <2>1, <2>2, RingSpares
<1>6. CASE \E x \in DOMAIN t.sales :
             t.sales[x].status = "completed" /\ u = Undone(t, x, "returned")
  BY <1>1, <1>2, <1>6, UndoneSales DEF SaleStatus
<1>7. CASE \E y \in DOMAIN t.sales, x \in Item, d \in Buyer, q \in Nat \ {0},
              backorder \in BOOLEAN :
             /\ t.sales[y].status = "completed"
             /\ CanRing(Undone(t, y, "amended"), x, d, q, backorder)
             /\ u = Ring(Undone(t, y, "amended"), x, d, q)
  <2>1. PICK y \in DOMAIN t.sales, x \in Item, d \in Buyer, q \in Nat \ {0},
             backorder \in BOOLEAN :
               /\ t.sales[y].status = "completed"
               /\ CanRing(Undone(t, y, "amended"), x, d, q, backorder)
               /\ u = Ring(Undone(t, y, "amended"), x, d, q)
    BY <1>7
  <2>2. PICK v : v = Undone(t, y, "amended")
    OBVIOUS
  <2>3. v \in TablesType /\ DOMAIN v.sales = DOMAIN t.sales
    BY <1>1, <2>2, UndoneSales, UndoneServed DEF SaleStatus
  <2>4. x = i /\ d = c
    BY <2>1, <2>2, <2>3, RingRow
  <2>5. v \in ExactTables(p)
    <3>1. Keeps(ExactTables(p))
      BY ExactKeeps
    <3> QED BY <2>1, <2>2, <3>1 DEF Keeps
  <2>6. OthersCovered(v, i, c)
    <3>1. i \in Item
      BY <2>4
    <3> QED BY <1>1, <2>2, <3>1, UndoneSpares DEF SaleStatus
  <2> QED BY <2>1, <2>2, <2>4, <2>5, <2>6, RingSpares
<1>8. CASE \E x \in DOMAIN t.commitments, q \in Nat \ {0} :
             /\ Awaiting(t, x)
             /\ q <= Outstanding(t, x)
             /\ q <= t.commitments[x].allocated
             /\ q <= t.quantity[t.commitments[x].item]
             /\ u = HandOver(t, x, q)
  BY <1>1, <1>2, <1>8, HandOverSales
<1>9. CASE \E x \in DOMAIN t.commitments : Awaiting(t, x) /\ u = Cancel(t, x)
  BY <1>1, <1>2, <1>9, CancelColumns
<1> QED BY <1>3, <1>4, <1>5, <1>6, <1>7, <1>8, <1>9 DEF Request

\* "Nobody else may touch it": a sale rung at the till, or rung again when it
\* is amended, never leaves the holds of the other customers short of stock
\* they had, whatever was returned, adjusted, promised or received before
\* (pos.py, the stock check of _ring_sale, and reservations.py, held_for).
THEOREM ShopSalesSpareOthersHolds == ShopSpec => SalesSpareOthersHolds
<1>1. TypeOK /\ CounterIsTheHolds /\ PromisesAddUp /\ [ShopNext]_shopVars
        => [\A s \in DOMAIN sales' :
              s \notin DOMAIN sales =>
                LET i == sales'[s].item
                    c == sales'[s].client
                IN  OthersCovered(Tables, i, c) => OthersCovered(Tables', i, c)]_shopVars
  <2> SUFFICES ASSUME TypeOK, CounterIsTheHolds, PromisesAddUp, [ShopNext]_shopVars,
                      NEW s \in DOMAIN sales', s \notin DOMAIN sales,
                      OthersCovered(Tables, sales'[s].item, sales'[s].client)
               PROVE  OthersCovered(Tables', sales'[s].item, sales'[s].client)
    OBVIOUS
  <2>1. PICK t, u : t = Tables /\ u = Tables'
    OBVIOUS
  <2>2. PICK p \in [Item -> Nat] : t \in ExactTables(p)
    BY <2>1, InvariantTables
  <2>3. Request(t, u)
    BY <2>1, StepIsRequest
  <2>4. t.sales = sales /\ u.sales = sales'
    BY <2>1 DEF Tables
  <2>5. PICK i, c : i = u.sales[s].item /\ c = u.sales[s].client
    OBVIOUS
  <2>6. OthersCovered(t, i, c)
    BY <2>1, <2>4, <2>5
  <2>7. OthersCovered(u, i, c)
    BY <2>2, <2>3, <2>4, <2>5, <2>6, SaleSpares
  <2> QED BY <2>1, <2>4, <2>5, <2>7
<1> QED
  BY <1>1, ShopTypeOK, ShopCounterIsTheHolds, ShopPromisesAddUp, PTL
     DEF ShopSpec, SalesSpareOthersHolds

=============================================================================
