------------------------------- MODULE Works -------------------------------
(***************************************************************************)
(* The shop floor of Shop together with production:                        *)
(* backend/routers/manufacturing.py, orders and quality control.           *)
(*                                                                         *)
(* Production shares two things with the shop: the shelf, and the counter  *)
(* inventory.reserved_quantity, to which an order adds and from which it   *)
(* takes without leaving a row.  Each handler is one transaction and one   *)
(* action.  A recipe has one component; labour, scrap and cost are left    *)
(* out.                                                                    *)
(***************************************************************************)
EXTENDS Shop

CONSTANTS Bom,             \* recipes
          Component,       \* the item a recipe consumes
          Output,          \* the item it makes
          PerUnit,         \* components per unit made
          NeedsQC,         \* recipes whose output is inspected
          Batches,         \* quantities an order may be planned for
          MaxOrders,       \* bound: rows of production_orders
          MaxInspections   \* bound: rows of production_qc

ASSUME WorksAssumption ==
  /\ Component \in [Bom -> Item]
  /\ Output \in [Bom -> Item]
  /\ \A b \in Bom : Component[b] # Output[b]
  /\ PerUnit \in [Bom -> Nat \ {0}]
  /\ NeedsQC \subseteq Bom
  /\ Batches \subseteq Nat \ {0}
  /\ {MaxOrders, MaxInspections} \subseteq Nat

VARIABLES
  orders,        \* production_orders with the component line of each
  quarantine,    \* inventory.quarantine_quantity
  inspections    \* production_qc

worksVars == <<shopVars, orders, quarantine, inspections>>

OrderStatus == {"Draft", "Confirmed", "In Progress", "Completed", "Cancelled"}
ReservedStates == {"Confirmed", "In Progress"}
OpenStates == {"Draft"} \cup ReservedStates

\* `needed` is the snapshot of the component line (quantity_required).
Order == [bom : Bom, planned : Nat \ {0}, needed : Nat, completed : Nat,
          status : OrderStatus]

Inspection == [order : Nat \ {0}, quantity : Nat \ {0},
               status : {"Pending", "Passed", "Failed", "Partial"}]

WorksInit ==
  /\ ShopInit
  /\ orders = <<>>
  /\ quarantine = [i \in Item |-> 0]
  /\ inspections = <<>>

NewOrder(b, n) ==
  [bom |-> b, planned |-> n, needed |-> PerUnit[b] * n, completed |-> 0,
   status |-> "Draft"]

PutOrder(o, row) == orders' = [orders EXCEPT ![o] = row]
-----------------------------------------------------------------------------
\* The lifecycle of an order.

CreateOrder(b, n) ==
  /\ Len(orders) < MaxOrders
  /\ orders' = Append(orders, NewOrder(b, n))
  /\ UNCHANGED <<shopVars, quarantine, inspections>>

EditOrder(o, n) ==
  /\ orders[o].status = "Draft"
  /\ PutOrder(o, NewOrder(orders[o].bom, n))
  /\ UNCHANGED <<shopVars, quarantine, inspections>>

\* _apply_reservation, +1: whatever is available.
Reserve(t, i, q) == [t EXCEPT !.reserved[i] = @ + q]

\* Mutant: the counter is not kept from going below zero.
UnreserveUnclipped(t, i, q) == [t EXCEPT !.reserved[i] = @ - q]

\* _apply_reservation, -1, and the release of complete_order: clipped at zero.
Unreserve(t, i, q) == [t EXCEPT !.reserved[i] = AtLeastZero(@ - q)]

ConfirmOrder(o) ==
  LET row == orders[o]
  IN  /\ row.status = "Draft"
      /\ Commit(Reserve(Tables, Component[row.bom], row.needed))
      /\ PutOrder(o, [row EXCEPT !.status = "Confirmed"])
      /\ UNCHANGED <<purchases, quarantine, inspections>>

StartOrder(o) ==
  /\ orders[o].status = "Confirmed"
  /\ PutOrder(o, [orders[o] EXCEPT !.status = "In Progress"])
  /\ UNCHANGED <<shopVars, quarantine, inspections>>

CancelOrder(o) ==
  LET row == orders[o]
  IN  /\ row.status \in OpenStates
      /\ Commit(IF row.status \in ReservedStates
                THEN Unreserve(Tables, Component[row.bom], row.needed)
                ELSE Tables)
      /\ PutOrder(o, [row EXCEPT !.status = "Cancelled"])
      /\ UNCHANGED <<purchases, quarantine, inspections>>
-----------------------------------------------------------------------------
\* Reporting what was built.

\* A run that closes an order of which nothing was built yet.
SingleShot(row, close) == close /\ row.completed = 0

\* Mutant: every run releases what it consumed.
ReleasedAsUsed(row, used, close) == used

\* A single shot releases the whole planned reservation, any other run only
\* what it consumed -- whether or not the order has been confirmed.
Released(row, used, close) == IF SingleShot(row, close) THEN row.needed ELSE used

\* The component leaves the shelf.
ConsumeComponent(t, row, used, close) ==
  LET i == Component[row.bom]
  IN  Unreserve([t EXCEPT !.quantity[i] = @ - used], i, Released(row, used, close))

\* The run's output enters stock, for those who are waiting first, unless the
\* recipe is inspected.
RunTables(t, row, n, used, close) ==
  LET consumed == ConsumeComponent(t, row, used, close)
      i        == Output[row.bom]
  IN  IF row.bom \in NeedsQC
      THEN consumed
      ELSE Allocate([consumed EXCEPT !.quantity[i] = @ + n], i)

CompletedRow(row, n, close) ==
  LET done == row.completed + n
  IN  [row EXCEPT !.completed = done,
                  !.status = IF close \/ done >= row.planned
                             THEN "Completed" ELSE "In Progress"]

\* complete_order, and complete_partial when it does not close.
CompleteOrder(o, n, used, close) ==
  LET row == orders[o]
  IN  /\ row.status \in OpenStates
      /\ ~SingleShot(row, close) => n <= row.planned - row.completed
      /\ used <= quantity[Component[row.bom]]
      /\ Commit(RunTables(Tables, row, n, used, close))
      /\ PutOrder(o, CompletedRow(row, n, close))
      /\ \/ /\ row.bom \in NeedsQC
            /\ Len(inspections) < MaxInspections
            /\ quarantine' = [quarantine EXCEPT ![Output[row.bom]] = @ + n]
            /\ inspections' = Append(inspections,
                 [order |-> o, quantity |-> n, status |-> "Pending"])
         \/ /\ row.bom \notin NeedsQC
            /\ UNCHANGED <<quarantine, inspections>>
      /\ UNCHANGED purchases

\* Mutant: a batch of which nothing passed is left open.
VerdictPassedOnly(batch, passed) ==
  IF passed = batch.quantity THEN "Passed" ELSE IF passed = 0 THEN "Pending" ELSE "Partial"

Verdict(batch, passed) ==
  IF passed = batch.quantity THEN "Passed" ELSE IF passed = 0 THEN "Failed" ELSE "Partial"

\* The whole batch leaves quarantine; what passed is on the shelf, and is not
\* offered to those who are waiting; what is to be reworked becomes a draft.
ResolveInspection(x, passed, rework) ==
  LET batch == inspections[x]
      bom   == orders[batch.order].bom
      i     == Output[bom]
  IN  /\ batch.status = "Pending"
      /\ passed <= batch.quantity
      /\ rework <= batch.quantity - passed
      /\ Commit([Tables EXCEPT !.quantity[i] = @ + passed])
      /\ quarantine' = [quarantine EXCEPT ![i] = AtLeastZero(@ - batch.quantity)]
      /\ inspections' = [inspections EXCEPT ![x].status = Verdict(batch, passed)]
      /\ \/ rework = 0 /\ UNCHANGED orders
         \/ /\ rework > 0
            /\ Len(orders) < MaxOrders
            /\ orders' = Append(orders, NewOrder(bom, rework))
      /\ UNCHANGED purchases
-----------------------------------------------------------------------------
WorksOnly ==
  \/ \E b \in Bom, n \in Batches : CreateOrder(b, n)
  \/ \E o \in DOMAIN orders, n \in Batches : EditOrder(o, n)
  \/ \E o \in DOMAIN orders : ConfirmOrder(o)
  \/ \E o \in DOMAIN orders : StartOrder(o)
  \/ \E o \in DOMAIN orders : CancelOrder(o)
  \/ \E o \in DOMAIN orders, n \in Quantities, used \in Quantities \cup {0},
        close \in BOOLEAN : CompleteOrder(o, n, used, close)
  \/ \E x \in DOMAIN inspections, passed \in Quantities \cup {0},
        rework \in Quantities \cup {0} : ResolveInspection(x, passed, rework)

ShopOnly == ShopNext /\ UNCHANGED <<orders, quarantine, inspections>>

WorksNext == ShopOnly \/ WorksOnly

WorksSpec == WorksInit /\ [][WorksNext]_worksVars
-----------------------------------------------------------------------------
(***************************************************************************)
(* Properties.                                                             *)
(***************************************************************************)

WorksTypeOK ==
  /\ TypeOK
  /\ orders \in Seq(Order)
  /\ quarantine \in [Item -> Nat]
  /\ inspections \in Seq(Inspection)

\* What the orders that hold material keep of item i.
OrdersNeed(i) ==
  SeqSum([o \in DOMAIN orders |->
            IF orders[o].status \in ReservedStates /\ Component[orders[o].bom] = i
            THEN orders[o].needed ELSE 0])

\* The two writers of the counter agree on it: it is what customers hold and
\* what the open orders need, of every item (reservations.py:10-15, "so the
\* two cannot drift").
CounterExact == \A i \in Item : reserved[i] = CustomerHeld(Tables, i) + OrdersNeed(i)

\* "The counter and the rows are written together ... so the two cannot drift"
\* (reservations.py:13): what the counter says is spoken for is never less than
\* what the customers' rows say they are holding.
CounterCoversTheHolds == \A i \in Item : CustomerHeld(Tables, i) <= reserved[i]

\* The whole of a confirmed order reported at once, whatever it consumed.
RegularRun ==
  \E o \in DOMAIN orders, n \in Quantities, used \in Quantities \cup {0} :
    /\ orders[o].status \in ReservedStates
    /\ orders[o].completed = 0
    /\ CompleteOrder(o, n, used, TRUE)

IrregularRun ==
  /\ \E o \in DOMAIN orders : orders'[o].completed # orders[o].completed
  /\ ~RegularRun

\* Only a run reported on a draft, or on part of an order, takes the counter
\* away from what it stands for: every other request, of either side and in
\* any order, leaves it exact.
OnlyIrregularRunsDrift ==
  [][CounterExact /\ ~IrregularRun => CounterExact']_worksVars

\* Nothing is inspected twice and nothing is lost in between: what is in
\* quarantine is what the pending inspections are of.
QuarantineIsPending ==
  \A i \in Item :
    quarantine[i] =
      SeqSum([x \in DOMAIN inspections |->
                IF inspections[x].status = "Pending"
                     /\ Output[orders[inspections[x].order].bom] = i
                THEN inspections[x].quantity ELSE 0])

\* "Called after ANY increase in stock" (commitments.py:139): goods that reach
\* the shelf from production serve whoever is waiting for them in the same step.
OutputServesTheWaiting ==
  [][\A i \in Item :
       /\ orders' # orders \/ inspections' # inspections
       /\ quantity'[i] > quantity[i]
       => \A k \in OpenFor(Tables', i) :
            Want(Tables', k) = 0 \/ Available(Tables', i) <= 0]_worksVars
============================================================================
