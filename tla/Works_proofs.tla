---------------------------- MODULE Works_proofs ----------------------------
(***************************************************************************)
(* Production beside the shop, for any recipes, any number of orders and   *)
(* of inspections, and whatever the shop does in between.                  *)
(*                                                                         *)
(* What is in quarantine is a column that completions add to and           *)
(* inspections take from, clipped at zero.  It is exact because the        *)
(* pending batches of an item always sum up to it, so that nothing is ever *)
(* clipped; and the sum is stable under every other step because an order  *)
(* keeps its recipe for good (Recorded).                                   *)
(*                                                                         *)
(* The counter is exact when it is what customers hold and what the open   *)
(* orders need (Kept); confirming, cancelling and completing an order in   *)
(* one run move both sides alike.  What the shop promises of its own rows  *)
(* is kept by production because it writes none of them but through        *)
(* allocate.                                                               *)
(***************************************************************************)
EXTENDS Works, ShopInvariants_proofs

\* An inspection is of an order that exists, and orders are never deleted.
Recorded == \A x \in DOMAIN inspections : inspections[x].order \in DOMAIN orders

WorksInv == WorksTypeOK /\ Recorded /\ QuarantineIsPending

\* What a row of production_qc keeps in quarantine of item i.
Waiting(i) ==
  [x \in DOMAIN inspections |->
     IF inspections[x].status = "Pending" /\ Output[orders[inspections[x].order].bom] = i
     THEN inspections[x].quantity ELSE 0]

\* The property by the rows whose total it is, now and after a step.
LEMMA QuarantineDef ==
  /\ QuarantineIsPending <=> \A i \in Item : quarantine[i] = SeqSum(Waiting(i))
  /\ QuarantineIsPending' <=> \A i \in Item : quarantine'[i] = SeqSum(Waiting(i)')
  BY DEF QuarantineIsPending, Waiting
-----------------------------------------------------------------------------
\* Type correctness.

\* What production changes on the shelf and in the counter keeps the types.
LEMMA ReserveType ==
  ASSUME NEW t \in TablesType, NEW i \in Item, NEW q \in Nat
  PROVE  Reserve(t, i, q) \in TablesType /\ Unreserve(t, i, q) \in TablesType
<1> DEFINE more == [t.reserved EXCEPT ![i] = @ + q]
           less == [t.reserved EXCEPT ![i] = AtLeastZero(@ - q)]
<1>1. t.reserved \in [Item -> Nat]
  BY DEF TablesType
<1>2. t.reserved[i] - q \in Int /\ AtLeastZero(t.reserved[i] - q) \in Nat
  BY <1>1 DEF AtLeastZero
<1>3. more \in [Item -> Nat] /\ less \in [Item -> Nat]
  BY <1>1, <1>2
<1>4. /\ Reserve(t, i, q) = [t EXCEPT !.reserved = more]
      /\ Unreserve(t, i, q) = [t EXCEPT !.reserved = less]
  BY DEF Reserve, Unreserve, TablesType
<1> HIDE DEF more, less
<1> QED BY <1>3, <1>4 DEF TablesType

\* A new order has the type of one.
LEMMA NewOrderType ==
  ASSUME NEW b \in Bom, NEW n \in Nat \ {0}
  PROVE  NewOrder(b, n) \in Order /\ NewOrder(b, n).bom = b
<1>1. PerUnit[b] * n \in Nat
  BY WorksAssumption
<1> QED BY <1>1 DEF NewOrder, Order, OrderStatus

\* Rewriting an order keeps the others, and its recipe if the row does.
LEMMA PutOrderType ==
  ASSUME orders \in Seq(Order), NEW o \in DOMAIN orders, NEW row \in Order, PutOrder(o, row),
         row.bom = orders[o].bom
  PROVE  /\ orders' \in Seq(Order) /\ DOMAIN orders' = DOMAIN orders
         /\ \A x \in DOMAIN orders : orders'[x].bom = orders[x].bom
  BY DEF PutOrder

\* A new order leaves the earlier ones.
LEMMA AppendOrderType ==
  ASSUME orders \in Seq(Order), NEW row \in Order, orders' = Append(orders, row)
  PROVE  /\ orders' \in Seq(Order) /\ DOMAIN orders \subseteq DOMAIN orders'
         /\ \A x \in DOMAIN orders : orders'[x].bom = orders[x].bom
  OBVIOUS

\* A run takes no more than is there, so the tables keep their types.
LEMMA RunTablesType ==
  ASSUME NEW t \in TablesType, NEW row \in Order, NEW n \in Nat, NEW used \in Nat,
         NEW close, used <= t.quantity[Component[row.bom]]
  PROVE  RunTables(t, row, n, used, close) \in TablesType
<1> DEFINE i == Component[row.bom]
           o == Output[row.bom]
           consumed == ConsumeComponent(t, row, used, close)
<1>1. i \in Item /\ o \in Item /\ row.needed \in Nat
  BY WorksAssumption DEF Order
<1>2. t.quantity[i] \in Nat
  BY <1>1 DEF TablesType
<1>3. [t EXCEPT !.quantity[i] = @ - used] \in TablesType
  <2>1. t.quantity[i] + (-used) >= 0 /\ -used \in Int
        /\ t.quantity[i] - used = t.quantity[i] + (-used)
    BY <1>2
  <2> HIDE DEF i
  <2>2. [t EXCEPT !.quantity[i] = @ + (-used)] \in TablesType
    BY <1>1, <2>1, ShelfType
  <2> QED BY <2>1, <2>2
<1>4. Released(row, used, close) \in Nat
  BY <1>1 DEF Released
<1>5. consumed \in TablesType
  <2> DEFINE taken == [t EXCEPT !.quantity[i] = @ - used]
  <2>1. consumed = Unreserve(taken, i, Released(row, used, close))
    BY DEF ConsumeComponent
  <2> HIDE DEF consumed, taken, i
  <2> QED BY <1>1, <1>4, <2>1, <1>3, ReserveType DEF taken
<1>6. [consumed EXCEPT !.quantity[o] = @ + n] \in TablesType
  <2> HIDE DEF consumed, o
  <2>1. consumed.quantity[o] + n >= 0
    BY <1>1, <1>5 DEF TablesType
  <2> QED BY <1>1, <1>5, <2>1, ShelfType
<1>7. RunTables(t, row, n, used, close) =
        IF row.bom \in NeedsQC THEN consumed
        ELSE Allocate([consumed EXCEPT !.quantity[o] = @ + n], o)
  BY DEF RunTables
<1> HIDE DEF consumed, o
<1> QED BY <1>5, <1>6, <1>7, AllocateType

\* Reporting a run keeps the type and the recipe of its order.
LEMMA CompletedRowType ==
  ASSUME NEW row \in Order, NEW n \in Nat, NEW close
  PROVE  CompletedRow(row, n, close) \in Order /\ CompletedRow(row, n, close).bom = row.bom
<1> DEFINE done == row.completed + n
           st == IF close \/ done >= row.planned THEN "Completed" ELSE "In Progress"
<1>1. done \in Nat /\ st \in OrderStatus
  <2>1. row.completed \in Nat
    BY DEF Order
  <2> QED BY <2>1 DEF OrderStatus
<1>2. CompletedRow(row, n, close) = [row EXCEPT !.completed = done, !.status = st]
  BY DEF CompletedRow
<1> HIDE DEF done, st
<1> QED BY <1>1, <1>2 DEF Order
-----------------------------------------------------------------------------
\* The sum of the pending batches.

\* The rows are counts, one for each inspection.
LEMMA WaitingType ==
  ASSUME WorksTypeOK, NEW i
  PROVE  Waiting(i) \in Seq(Nat) /\ Waiting(i) \in Seq(Int)
         /\ Len(Waiting(i)) = Len(inspections) /\ DOMAIN Waiting(i) = 1 .. Len(inspections)
<1>1. inspections \in Seq(Inspection)
  BY DEF WorksTypeOK
<1>2. \A x \in 1 .. Len(inspections) : inspections[x].quantity \in Nat
  <2>1. \A x \in 1 .. Len(inspections) : inspections[x] \in Inspection
    BY <1>1
  <2> QED BY <2>1 DEF Inspection
<1> QED BY <1>1, <1>2 DEF Waiting

\* A step that inspects nothing, and lets every order keep its recipe.
LEMMA NothingInspected ==
  ASSUME WorksInv, WorksTypeOK', UNCHANGED <<quarantine, inspections>>,
         DOMAIN orders \subseteq DOMAIN orders',
         \A x \in DOMAIN orders : orders'[x].bom = orders[x].bom
  PROVE  WorksInv'
<1>1. Recorded'
  BY DEF WorksInv, Recorded
<1>2. \A i : Waiting(i)' = Waiting(i)
  BY DEF WorksInv, Recorded, Waiting
<1> QED BY <1>1, <1>2, QuarantineDef DEF WorksInv

\* The output of an inspected recipe goes to quarantine with its inspection.
LEMMA Quarantined ==
  ASSUME WorksInv, WorksTypeOK', NEW o \in DOMAIN orders, NEW n \in Nat \ {0},
         quarantine' = [quarantine EXCEPT ![Output[orders[o].bom]] = @ + n],
         inspections' = Append(inspections, [order |-> o, quantity |-> n, status |-> "Pending"]),
         DOMAIN orders \subseteq DOMAIN orders',
         \A x \in DOMAIN orders : orders'[x].bom = orders[x].bom
  PROVE  WorksInv'
<1> DEFINE row == [order |-> o, quantity |-> n, status |-> "Pending"]
           made(i) == IF Output[orders[o].bom] = i THEN n ELSE 0
<1>1. /\ WorksTypeOK /\ Recorded /\ QuarantineIsPending
      /\ inspections \in Seq(Inspection) /\ quarantine \in [Item -> Nat]
  BY DEF WorksInv, WorksTypeOK
<1>2. /\ DOMAIN inspections' = 1 .. Len(inspections) + 1
      /\ Len(inspections') = Len(inspections) + 1 /\ Len(inspections) \in Nat
      /\ inspections'[Len(inspections) + 1] = row
      /\ \A x \in 1 .. Len(inspections) : inspections'[x] = inspections[x]
  BY <1>1
<1>3. Recorded'
  BY <1>1, <1>2 DEF Recorded
<1>4. ASSUME NEW i \in Item PROVE quarantine'[i] = SeqSum(Waiting(i)')
  <2>1. Waiting(i) \in Seq(Int) /\ Len(Waiting(i)) = Len(inspections) /\ made(i) \in Int
    BY <1>1, WaitingType
  <2>2. Waiting(i)' \in Seq(Int) /\ Len(Waiting(i)') = Len(inspections) + 1
    <3>1. DOMAIN Waiting(i)' = 1 .. Len(inspections) + 1
      BY <1>2 DEF Waiting
    <3>2. \A x \in 1 .. Len(inspections) + 1 : Waiting(i)'[x] \in Int
      <4>1. \A x \in 1 .. Len(inspections') : inspections'[x] \in Inspection
        BY DEF WorksTypeOK
      <4>2. \A x \in 1 .. Len(inspections') : inspections'[x].quantity \in Int
        BY <4>1 DEF Inspection
      <4> QED BY <1>2, <4>2 DEF Waiting
    <3>3. Waiting(i)' = [x \in 1 .. Len(inspections) + 1 |-> Waiting(i)'[x]]
      BY <1>2 DEF Waiting
    <3> QED BY <1>2, <3>1, <3>2, <3>3
  <2>3. \A x \in 1 .. Len(inspections) : Waiting(i)'[x] = Waiting(i)[x]
    BY <1>1, <1>2 DEF Recorded, Waiting
  <2>4. Waiting(i)'[Len(inspections) + 1] = made(i)
    BY <1>2 DEF Waiting
  <2>5. Waiting(i)' = Append(Waiting(i), made(i))
    <3> DEFINE s == Waiting(i)
               r == Waiting(i)'
               m == made(i)
    <3>1. /\ s \in Seq(Int) /\ r \in Seq(Int) /\ m \in Int
          /\ Len(r) = Len(s) + 1 /\ r[Len(s) + 1] = m /\ \A x \in 1 .. Len(s) : r[x] = s[x]
      BY <2>1, <2>2, <2>3, <2>4
    <3> HIDE DEF s, r, m
    <3>2. r = Append(s, m)
      BY <3>1
    <3> QED BY <3>2 DEF s, r, m
  <2>6. SeqSum(Waiting(i)') = SeqSum(Waiting(i)) + made(i)
    BY <2>1, <2>5, SumAppend
  <2>7. quarantine[i] = SeqSum(Waiting(i)) /\ quarantine[i] \in Nat
    BY <1>1, QuarantineDef
  <2>8. quarantine'[i] = quarantine[i] + made(i)
    BY <1>1, <2>7
  <2> QED BY <2>6, <2>7, <2>8
<1> QED BY <1>3, <1>4, QuarantineDef DEF WorksInv

\* A batch that is decided leaves quarantine whole, and nothing is clipped.
LEMMA Decided ==
  ASSUME WorksInv, WorksTypeOK', NEW x \in DOMAIN inspections, NEW verdict,
         inspections[x].status = "Pending", verdict # "Pending",
         quarantine' = [quarantine EXCEPT ![Output[orders[inspections[x].order].bom]] =
                          AtLeastZero(@ - inspections[x].quantity)],
         inspections' = [inspections EXCEPT ![x].status = verdict],
         DOMAIN orders \subseteq DOMAIN orders',
         \A y \in DOMAIN orders : orders'[y].bom = orders[y].bom
  PROVE  WorksInv'
<1> DEFINE batch == inspections[x]
<1>1. /\ WorksTypeOK /\ Recorded /\ QuarantineIsPending
      /\ inspections \in Seq(Inspection) /\ quarantine \in [Item -> Nat]
      /\ batch \in Inspection /\ batch.quantity \in Nat
  <2>1. WorksTypeOK /\ inspections \in Seq(Inspection)
    BY DEF WorksInv, WorksTypeOK
  <2>2. batch \in Inspection
    BY <2>1
  <2>3. batch.quantity \in Nat
    BY <2>2 DEF Inspection
  <2> HIDE DEF batch
  <2> QED BY <2>1, <2>2, <2>3 DEF WorksInv, WorksTypeOK
<1>2. /\ DOMAIN inspections' = DOMAIN inspections
      /\ Len(inspections') = Len(inspections)
      /\ inspections'[x].status = verdict /\ inspections'[x].order = batch.order
      /\ \A y \in DOMAIN inspections : y # x => inspections'[y] = inspections[y]
  BY <1>1 DEF Inspection
<1>3. Recorded'
  BY <1>1, <1>2 DEF Recorded
<1>4. ASSUME NEW i \in Item PROVE quarantine'[i] = SeqSum(Waiting(i)')
  <2> DEFINE s == Waiting(i)
             r == Waiting(i)'
             held == IF Output[orders[batch.order].bom] = i THEN batch.quantity ELSE 0
  <2>1. s \in Seq(Int) /\ Len(s) = Len(inspections) /\ DOMAIN s = 1 .. Len(inspections)
    BY <1>1, WaitingType
  <2>2. r \in Seq(Nat) /\ r \in Seq(Int) /\ Len(r) = Len(inspections)
    <3>1. inspections' \in Seq(Inspection)
      BY DEF WorksTypeOK
    <3>2. \A y \in 1 .. Len(inspections') : inspections'[y].quantity \in Nat
      <4>1. \A y \in 1 .. Len(inspections') : inspections'[y] \in Inspection
        BY <3>1
      <4> QED BY <4>1 DEF Inspection
    <3> QED BY <1>2, <3>1, <3>2 DEF Waiting
  <2>3. x \in 1 .. Len(s) /\ s[x] = held /\ r[x] = 0
    BY <1>1, <1>2, <2>1 DEF Waiting
  <2>4. \A y \in 1 .. Len(s) : y # x => r[y] = s[y]
    BY <1>1, <1>2, <2>1 DEF Waiting, Recorded
  <2>5. quarantine[i] = SeqSum(s) /\ quarantine[i] \in Nat
    BY <1>1, QuarantineDef
  <2>6. quarantine'[i] = IF Output[orders[batch.order].bom] = i
                         THEN AtLeastZero(quarantine[i] - batch.quantity) ELSE quarantine[i]
    BY <1>1
  <2>7. held \in Nat
    BY <1>1
  <2> HIDE DEF s, r
  <2>8. SeqSum(r) = SeqSum(s) - held
    <3>1. SeqSum(r) = SeqSum(s) - s[x] + r[x]
      BY <2>1, <2>2, <2>3, <2>4, SumReplace
    <3>2. SeqSum(s) \in Nat
      BY <2>5
    <3> HIDE DEF held
    <3> QED BY <2>3, <2>7, <3>1, <3>2
  <2>9. SeqSum(r) \in Nat
    BY <2>2, SumNat
  <2>10. quarantine'[i] = SeqSum(r)
    BY <1>1, <2>5, <2>6, <2>8, <2>9 DEF AtLeastZero
  <2> QED BY <2>10 DEF r
<1> QED BY <1>3, <1>4, QuarantineDef DEF WorksInv
-----------------------------------------------------------------------------
\* The steps of production.

\* At the start nothing is ordered and nothing is in quarantine.
LEMMA WorksInitially == WorksInit => WorksInv
<1> SUFFICES ASSUME WorksInit PROVE WorksInv
  OBVIOUS
<1>1. TypeOK
  BY ShopInitType DEF WorksInit
<1>2. orders = <<>> /\ inspections = <<>> /\ quarantine = [i \in Item |-> 0]
  BY DEF WorksInit
<1>3. WorksTypeOK /\ Recorded
  BY <1>1, <1>2 DEF WorksTypeOK, Recorded
<1>4. ASSUME NEW i \in Item PROVE quarantine[i] = SeqSum(Waiting(i))
  <2>1. Waiting(i) \in Seq(Int) /\ Len(Waiting(i)) = 0
    BY <1>2, <1>3, WaitingType
  <2>2. \A k \in 1 .. Len(Waiting(i)) : Waiting(i)[k] = 0
    BY <2>1
  <2>3. SeqSum(Waiting(i)) = 0
    BY <2>1, <2>2, SumZero
  <2> QED BY <1>2, <2>3
<1> QED BY <1>3, <1>4, QuarantineDef DEF WorksInv

\* The lifecycle of an order touches neither inspections nor quarantine.
LEMMA OrderKeeps ==
  ASSUME WorksInv, NEW o \in DOMAIN orders,
         (\E n \in Batches : EditOrder(o, n)) \/ ConfirmOrder(o) \/ StartOrder(o) \/ CancelOrder(o)
  PROVE  WorksInv'
<1>1. /\ WorksTypeOK /\ TypeOK /\ orders \in Seq(Order) /\ orders[o] \in Order
      /\ Tables \in TablesType /\ purchases \in [Purchase -> PurchaseRow]
  BY TablesTyped DEF WorksInv, WorksTypeOK
<1>2. /\ Component[orders[o].bom] \in Item /\ orders[o].bom \in Bom /\ orders[o].needed \in Nat
      /\ Batches \subseteq Nat \ {0}
  BY <1>1, WorksAssumption DEF Order
<1>3. ASSUME NEW row \in Order, row.bom = orders[o].bom, PutOrder(o, row), TypeOK',
             UNCHANGED <<quarantine, inspections>>
      PROVE  WorksInv'
  <2>1. /\ orders' \in Seq(Order) /\ DOMAIN orders' = DOMAIN orders
        /\ \A x \in DOMAIN orders : orders'[x].bom = orders[x].bom
    BY <1>1, <1>3, PutOrderType
  <2>2. WorksTypeOK'
    BY <1>1, <1>3, <2>1 DEF WorksTypeOK
  <2> QED BY <1>3, <2>1, <2>2, NothingInspected
<1>4. ASSUME NEW st \in OrderStatus
      PROVE  [orders[o] EXCEPT !.status = st] \in Order
             /\ [orders[o] EXCEPT !.status = st].bom = orders[o].bom
  BY <1>1 DEF Order
<1>5. UNCHANGED shopVars => TypeOK'
  BY <1>1 DEF shopVars, stock, TypeOK
<1>6. ASSUME NEW t \in TablesType, Commit(t), UNCHANGED purchases PROVE TypeOK'
  BY <1>1, <1>6, CommitTables, TablesTyped
<1>7. ASSUME NEW n \in Batches, EditOrder(o, n) PROVE WorksInv'
  BY <1>2, <1>3, <1>5, <1>7, NewOrderType DEF EditOrder
<1>8. CASE ConfirmOrder(o)
  <2>1. TypeOK'
    BY <1>1, <1>2, <1>6, <1>8, ReserveType DEF ConfirmOrder
  <2> QED BY <1>3, <1>4, <1>8, <2>1 DEF ConfirmOrder, OrderStatus
<1>9. CASE StartOrder(o)
  BY <1>3, <1>4, <1>5, <1>9 DEF StartOrder, OrderStatus
<1>10. CASE CancelOrder(o)
  <2>1. TypeOK'
    BY <1>1, <1>2, <1>6, <1>10, ReserveType DEF CancelOrder
  <2> QED BY <1>3, <1>4, <1>10, <2>1 DEF CancelOrder, OrderStatus
<1> QED BY <1>7, <1>8, <1>9, <1>10

\* Neither does a new order.
LEMMA CreateKeeps ==
  ASSUME WorksInv, NEW b \in Bom, NEW n \in Batches, CreateOrder(b, n)
  PROVE  WorksInv'
<1>1. WorksTypeOK /\ TypeOK /\ orders \in Seq(Order) /\ n \in Nat \ {0}
  BY WorksAssumption DEF WorksInv, WorksTypeOK
<1>2. /\ orders' = Append(orders, NewOrder(b, n)) /\ NewOrder(b, n) \in Order
      /\ UNCHANGED <<shopVars, quarantine, inspections>>
  BY <1>1, NewOrderType DEF CreateOrder
<1>3. /\ orders' \in Seq(Order) /\ DOMAIN orders \subseteq DOMAIN orders'
      /\ \A x \in DOMAIN orders : orders'[x].bom = orders[x].bom
  BY <1>1, <1>2, AppendOrderType
<1>4. WorksTypeOK'
  BY <1>1, <1>2, <1>3 DEF WorksTypeOK, shopVars, stock, TypeOK
<1> QED BY <1>2, <1>3, <1>4, NothingInspected

\* A run of an inspected recipe puts its batch in quarantine.
LEMMA CompleteKeeps ==
  ASSUME WorksInv, NEW o \in DOMAIN orders, NEW n \in Quantities,
         NEW used \in Quantities \cup {0}, NEW close \in BOOLEAN,
         CompleteOrder(o, n, used, close)
  PROVE  WorksInv'
<1> DEFINE row == orders[o]
<1>1. /\ WorksTypeOK /\ TypeOK /\ orders \in Seq(Order) /\ row \in Order
      /\ Tables \in TablesType /\ purchases \in [Purchase -> PurchaseRow]
      /\ Tables.quantity = quantity
      /\ quarantine \in [Item -> Nat] /\ inspections \in Seq(Inspection)
  BY TablesTyped DEF WorksInv, WorksTypeOK
<1>2. n \in Nat \ {0} /\ used \in Nat /\ Output[row.bom] \in Item /\ o \in Nat \ {0}
  <2>1. Quantities \subseteq Nat \ {0} /\ Output \in [Bom -> Item]
    BY ShopAssumption, WorksAssumption
  <2>2. row.bom \in Bom
    BY <1>1 DEF Order
  <2>3. o \in Nat \ {0}
    BY <1>1
  <2> HIDE DEF row
  <2> QED BY <2>1, <2>2, <2>3
<1>3. /\ used <= quantity[Component[row.bom]]
      /\ Commit(RunTables(Tables, row, n, used, close))
      /\ PutOrder(o, CompletedRow(row, n, close))
      /\ UNCHANGED purchases
  BY DEF CompleteOrder
<1>4. TypeOK'
  <2>1. RunTables(Tables, row, n, used, close) \in TablesType
    BY <1>1, <1>2, <1>3, RunTablesType
  <2> QED BY <1>1, <1>3, <2>1, CommitTables, TablesTyped
<1>5. /\ orders' \in Seq(Order) /\ DOMAIN orders' = DOMAIN orders
      /\ \A x \in DOMAIN orders : orders'[x].bom = orders[x].bom
  <2>1. CompletedRow(row, n, close) \in Order /\ CompletedRow(row, n, close).bom = row.bom
    BY <1>1, <1>2, CompletedRowType
  <2> QED BY <1>1, <1>3, <2>1, PutOrderType
<1>6. CASE UNCHANGED <<quarantine, inspections>>
  <2>1. WorksTypeOK'
    BY <1>1, <1>4, <1>5, <1>6 DEF WorksTypeOK
  <2> QED BY <1>5, <1>6, <2>1, NothingInspected
<1>7. CASE /\ quarantine' = [quarantine EXCEPT ![Output[row.bom]] = @ + n]
           /\ inspections' = Append(inspections,
                [order |-> o, quantity |-> n, status |-> "Pending"])
  <2>1. [order |-> o, quantity |-> n, status |-> "Pending"] \in Inspection
    BY <1>2 DEF Inspection
  <2>2. quarantine' \in [Item -> Nat] /\ inspections' \in Seq(Inspection)
    BY <1>1, <1>2, <1>7, <2>1
  <2>3. WorksTypeOK'
    BY <1>4, <1>5, <2>2 DEF WorksTypeOK
  <2> QED BY <1>2, <1>5, <1>7, <2>3, Quarantined
<1> QED BY <1>6, <1>7 DEF CompleteOrder

\* A verdict takes the whole batch out again.
LEMMA ResolveKeeps ==
  ASSUME WorksInv, NEW x \in DOMAIN inspections, NEW passed \in Quantities \cup {0},
         NEW rework \in Quantities \cup {0}, ResolveInspection(x, passed, rework)
  PROVE  WorksInv'
<1> DEFINE batch == inspections[x]
           bom == orders[batch.order].bom
           i == Output[bom]
<1>1. /\ WorksTypeOK /\ TypeOK /\ Recorded /\ orders \in Seq(Order)
      /\ Tables \in TablesType /\ purchases \in [Purchase -> PurchaseRow]
      /\ quarantine \in [Item -> Nat] /\ inspections \in Seq(Inspection)
      /\ batch \in Inspection
  BY TablesTyped DEF WorksInv, WorksTypeOK
<1>2. /\ passed \in Nat /\ rework \in Nat /\ batch.quantity \in Nat
      /\ batch.order \in DOMAIN orders /\ bom \in Bom /\ i \in Item
  <2>1. batch.order \in DOMAIN orders
    BY <1>1 DEF Recorded
  <2>2. orders[batch.order] \in Order
    BY <1>1, <2>1
  <2>3. Quantities \subseteq Nat \ {0} /\ Output \in [Bom -> Item]
    BY ShopAssumption, WorksAssumption
  <2>4. bom \in Bom
    BY <2>2 DEF Order
  <2>5. batch.quantity \in Nat
    <3> HIDE DEF batch
    <3> QED BY <1>1 DEF Inspection
  <2>6. i \in Item
    <3> HIDE DEF bom
    <3> QED BY <2>3, <2>4
  <2> HIDE DEF batch, bom, i
  <2> QED BY <2>1, <2>3, <2>4, <2>5, <2>6
<1>3. /\ batch.status = "Pending"
      /\ Commit([Tables EXCEPT !.quantity[i] = @ + passed])
      /\ quarantine' = [quarantine EXCEPT ![i] = AtLeastZero(@ - batch.quantity)]
      /\ inspections' = [inspections EXCEPT ![x].status = Verdict(batch, passed)]
      /\ UNCHANGED purchases
  BY DEF ResolveInspection
<1>4. Verdict(batch, passed) \in {"Passed", "Failed", "Partial"}
  BY DEF Verdict
<1>5. TypeOK'
  <2>1. Tables.quantity[i] + passed >= 0
    BY <1>1, <1>2 DEF TablesType
  <2>2. [Tables EXCEPT !.quantity[i] = @ + passed] \in TablesType
    <3> HIDE DEF i
    <3> QED BY <1>1, <1>2, <2>1, ShelfType
  <2> QED BY <1>1, <1>3, <2>2, CommitTables, TablesTyped
<1>6. /\ orders' \in Seq(Order) /\ DOMAIN orders \subseteq DOMAIN orders'
      /\ \A y \in DOMAIN orders : orders'[y].bom = orders[y].bom
  <2>1. CASE UNCHANGED orders
    BY <1>1, <2>1
  <2>2. CASE rework > 0 /\ orders' = Append(orders, NewOrder(bom, rework))
    <3>1. NewOrder(bom, rework) \in Order
      <4> HIDE DEF bom
      <4> QED BY <1>2, <2>2, NewOrderType
    <3> QED BY <1>1, <2>2, <3>1, AppendOrderType
  <2> QED BY <2>1, <2>2 DEF ResolveInspection
<1>7. quarantine' \in [Item -> Nat]
  <2>1. AtLeastZero(quarantine[i] - batch.quantity) \in Nat
    BY <1>1, <1>2 DEF AtLeastZero
  <2> QED BY <1>1, <1>2, <1>3, <2>1
<1>8. inspections' \in Seq(Inspection)
  <2>1. [batch EXCEPT !.status = Verdict(batch, passed)] \in Inspection
    BY <1>1, <1>4 DEF Inspection
  <2> QED BY <1>1, <1>3, <2>1
<1>9. WorksTypeOK'
  BY <1>5, <1>6, <1>7, <1>8 DEF WorksTypeOK
<1> QED BY <1>3, <1>4, <1>6, <1>9, Decided

\* Every step of the shop or of production keeps the invariant.
LEMMA WorksStep == WorksInv /\ [WorksNext]_worksVars => WorksInv'
<1> SUFFICES ASSUME WorksInv, [WorksNext]_worksVars PROVE WorksInv'
  OBVIOUS
<1>1. WorksTypeOK /\ TypeOK
  BY DEF WorksInv, WorksTypeOK
<1>2. CASE ShopOnly \/ UNCHANGED worksVars
  <2>1. UNCHANGED <<orders, quarantine, inspections>>
    BY <1>2 DEF ShopOnly, worksVars
  <2>2. TypeOK'
    BY <1>1, <1>2, ShopStepType DEF ShopOnly, worksVars
  <2>3. WorksTypeOK'
    BY <1>1, <2>1, <2>2 DEF WorksTypeOK
  <2> QED BY <2>1, <2>3, NothingInspected
<1> QED
  BY <1>2, CreateKeeps, OrderKeeps, CompleteKeeps, ResolveKeeps DEF WorksNext, WorksOnly

\* The inductive invariant: rows of their types, inspections of orders that
\* exist, and a quarantine column that is the sum of what is pending
\* (manufacturing.py, complete_order and resolve_qc).
THEOREM WorksInductive == WorksSpec => []WorksInv
BY WorksInitially, WorksStep, PTL DEF WorksSpec
-----------------------------------------------------------------------------
\* With production writing the counter and the shelf beside the shop, the rows
\* of both keep their types and no count goes below zero.
THEOREM WorksTyped == WorksSpec => []WorksTypeOK
<1>1. WorksInv => WorksTypeOK
  BY DEF WorksInv
<1> QED BY <1>1, WorksInductive, PTL

\* What is in quarantine is what the pending inspections are of, for any number
\* of batches decided in any order.
THEOREM WorksQuarantineIsPending == WorksSpec => []QuarantineIsPending
<1>1. WorksInv => QuarantineIsPending
  BY DEF WorksInv
<1> QED BY <1>1, WorksInductive, PTL
-----------------------------------------------------------------------------
(***************************************************************************)
(* The counter, written by the shop and by production.                     *)
(*                                                                         *)
(* While the orders keep p, the shop leaves the counter exact (ExactKeeps, *)
(* for any p).  What remains is that each step of production moves the     *)
(* counter by as much as it moves p.                                       *)
(***************************************************************************)

\* What a row of production_orders keeps of item i.
Need(row, i) ==
  IF row.status \in ReservedStates /\ Component[row.bom] = i THEN row.needed ELSE 0

NeedRows(s, i) == [o \in DOMAIN s |-> Need(s[o], i)]

\* What the orders s keep of each item.
Kept(s) == [i \in Item |-> SeqSum(NeedRows(s, i))]

\* What an order keeps is a count.
LEMMA NeedType ==
  ASSUME NEW row \in Order, NEW i
  PROVE  Need(row, i) \in Nat
  BY DEF Need, Order

\* So the rows are counts, one for each order.
LEMMA NeedRowsType ==
  ASSUME NEW s \in Seq(Order), NEW i
  PROVE  /\ NeedRows(s, i) \in Seq(Nat) /\ NeedRows(s, i) \in Seq(Int)
         /\ Len(NeedRows(s, i)) = Len(s)
<1>1. \A o \in 1 .. Len(s) : Need(s[o], i) \in Nat
  <2>1. \A o \in 1 .. Len(s) : s[o] \in Order
    OBVIOUS
  <2> QED BY <2>1, NeedType
<1> QED BY <1>1 DEF NeedRows

\* What the orders keep of an item is a count.
LEMMA KeptType ==
  ASSUME NEW s \in Seq(Order)
  PROVE  Kept(s) \in [Item -> Nat]
<1>1. \A i \in Item : SeqSum(NeedRows(s, i)) \in Nat
  BY NeedRowsType, SumNat
<1> QED BY <1>1 DEF Kept

\* A row that is written over.
LEMMA KeptPut ==
  ASSUME NEW s \in Seq(Order), NEW o \in DOMAIN s, NEW row \in Order,
         NEW r, r = [s EXCEPT ![o] = row]
  PROVE  /\ r \in Seq(Order)
         /\ \A i \in Item : Kept(r)[i] = Kept(s)[i] - Need(s[o], i) + Need(row, i)
<1>1. r \in Seq(Order) /\ Len(r) = Len(s) /\ o \in 1 .. Len(s) /\ r[o] = row
  OBVIOUS
<1>2. \A x \in 1 .. Len(s) : x # o => r[x] = s[x]
  OBVIOUS
<1>3. ASSUME NEW i \in Item
      PROVE  SeqSum(NeedRows(r, i)) = SeqSum(NeedRows(s, i)) - Need(s[o], i) + Need(row, i)
  <2> DEFINE a == NeedRows(s, i)
             b == NeedRows(r, i)
  <2>1. a \in Seq(Int) /\ b \in Seq(Int) /\ Len(b) = Len(a) /\ o \in 1 .. Len(a)
    BY <1>1, NeedRowsType
  <2>2. \A x \in 1 .. Len(a) : x # o => b[x] = a[x]
    BY <1>1, <1>2, NeedRowsType DEF NeedRows
  <2>3. a[o] = Need(s[o], i) /\ b[o] = Need(row, i)
    BY <1>1 DEF NeedRows
  <2> HIDE DEF a, b
  <2>4. SeqSum(b) = SeqSum(a) - a[o] + b[o]
    BY <2>1, <2>2, SumReplace
  <2> QED BY <2>3, <2>4 DEF a, b
<1> QED BY <1>1, <1>3 DEF Kept

\* A row that is added.
LEMMA KeptAppend ==
  ASSUME NEW s \in Seq(Order), NEW row \in Order, \A i : Need(row, i) = 0
  PROVE  Append(s, row) \in Seq(Order) /\ Kept(Append(s, row)) = Kept(s)
<1> DEFINE r == Append(s, row)
<1>1. r \in Seq(Order) /\ Len(r) = Len(s) + 1 /\ r[Len(s) + 1] = row /\ Len(s) \in Nat
  OBVIOUS
<1>2. \A x \in 1 .. Len(s) : r[x] = s[x]
  OBVIOUS
<1> HIDE DEF r
<1>3. ASSUME NEW i \in Item PROVE SeqSum(NeedRows(r, i)) = SeqSum(NeedRows(s, i))
  <2> DEFINE a == NeedRows(s, i)
             b == NeedRows(r, i)
  <2>1. a \in Seq(Int) /\ b \in Seq(Int) /\ Len(a) = Len(s) /\ Len(b) = Len(a) + 1
    BY <1>1, NeedRowsType
  <2>2. \A x \in 1 .. Len(a) : b[x] = a[x]
    BY <1>1, <1>2, <2>1 DEF NeedRows
  <2>3. b[Len(a) + 1] = 0
    BY <1>1, <2>1 DEF NeedRows
  <2> HIDE DEF a, b
  <2>4. b = Append(a, 0)
    BY <2>1, <2>2, <2>3
  <2>5. SeqSum(Append(a, 0)) = SeqSum(a) + 0 /\ SeqSum(a) \in Int
    BY <2>1, SumAppend, SumType
  <2> QED BY <2>4, <2>5 DEF a, b
<1> QED BY <1>1, <1>3 DEF Kept, r

\* What an order takes is added to both sides.
LEMMA ReserveExact ==
  ASSUME NEW p \in [Item -> Nat], NEW q \in [Item -> Nat], NEW t \in ExactTables(p),
         NEW i \in Item, NEW n \in Nat,
         \A j \in Item : q[j] = IF j = i THEN p[j] + n ELSE p[j]
  PROVE  Reserve(t, i, n) \in ExactTables(q)
<1> DEFINE u == Reserve(t, i, n)
<1>1. t \in TablesType /\ t.reserved \in [Item -> Nat]
  BY DEF ExactTables, TablesType
<1>2. u \in TablesType
  BY <1>1, ReserveType
<1>3. u.holds = t.holds /\ u.reserved = [t.reserved EXCEPT ![i] = @ + n]
  BY <1>1 DEF Reserve, TablesType
<1> HIDE DEF u
<1>4. ASSUME NEW j \in Item PROVE u.reserved[j] = CustomerHeld(u, j) + q[j]
  <2>1. CustomerHeld(u, j) = CustomerHeld(t, j) /\ CustomerHeld(t, j) \in Nat
    BY <1>1, <1>3, HeldByRows, HeldNat DEF CustomerHeld
  <2>2. t.reserved[j] = CustomerHeld(t, j) + p[j]
    BY DEF ExactTables, Exact
  <2>3. u.reserved[j] = IF j = i THEN t.reserved[j] + n ELSE t.reserved[j]
    BY <1>1, <1>3
  <2> QED BY <2>1, <2>2, <2>3
<1> QED BY <1>2, <1>4 DEF ExactTables, Exact, u

\* What it gives back is taken from both, and is never more than is there.
LEMMA UnreserveExact ==
  ASSUME NEW p \in [Item -> Nat], NEW q \in [Item -> Nat], NEW t \in ExactTables(p),
         NEW i \in Item, NEW n \in Nat,
         \A j \in Item : q[j] = IF j = i THEN p[j] - n ELSE p[j]
  PROVE  Unreserve(t, i, n) \in ExactTables(q)
<1> DEFINE u == Unreserve(t, i, n)
<1>1. t \in TablesType /\ t.reserved \in [Item -> Nat]
  BY DEF ExactTables, TablesType
<1>2. u \in TablesType
  BY <1>1, ReserveType
<1>3. u.holds = t.holds /\ u.reserved = [t.reserved EXCEPT ![i] = AtLeastZero(@ - n)]
  BY <1>1 DEF Unreserve, TablesType
<1> HIDE DEF u
<1>4. ASSUME NEW j \in Item PROVE u.reserved[j] = CustomerHeld(u, j) + q[j]
  <2>1. CustomerHeld(u, j) = CustomerHeld(t, j) /\ CustomerHeld(t, j) \in Nat
    BY <1>1, <1>3, HeldByRows, HeldNat DEF CustomerHeld
  <2>2. t.reserved[j] = CustomerHeld(t, j) + p[j]
    BY DEF ExactTables, Exact
  <2>3. u.reserved[j] = IF j = i THEN AtLeastZero(t.reserved[j] - n) ELSE t.reserved[j]
    BY <1>1, <1>3
  <2>4. p[j] \in Nat /\ q[j] \in Nat
    OBVIOUS
  <2> QED BY <2>1, <2>2, <2>3, <2>4 DEF AtLeastZero
<1> QED BY <1>2, <1>4 DEF ExactTables, Exact, u

\* The shelf is not part of it.
LEMMA ShelfExact ==
  ASSUME NEW p \in [Item -> Nat], NEW t \in ExactTables(p), NEW i \in Item, NEW n \in Int,
         t.quantity[i] + n >= 0
  PROVE  [t EXCEPT !.quantity[i] = @ + n] \in ExactTables(p)
<1> DEFINE u == [t EXCEPT !.quantity[i] = @ + n]
<1>1. t \in TablesType
  BY DEF ExactTables
<1>2. u \in TablesType
  BY <1>1, ShelfType
<1>3. u.holds = t.holds /\ u.reserved = t.reserved
  BY <1>1 DEF TablesType
<1> HIDE DEF u
<1> QED BY <1>2, <1>3, SameExact DEF u

\* The whole of an order of which nothing was built yet, reported at once.
LEMMA RegularRunExact ==
  ASSUME NEW p \in [Item -> Nat], NEW q \in [Item -> Nat], NEW t \in ExactTables(p),
         NEW row \in Order, NEW n \in Nat, NEW used \in Nat, row.completed = 0,
         used <= t.quantity[Component[row.bom]],
         \A j \in Item : q[j] = IF j = Component[row.bom] THEN p[j] - row.needed ELSE p[j]
  PROVE  RunTables(t, row, n, used, TRUE) \in ExactTables(q)
<1> DEFINE c == Component[row.bom]
           i == Output[row.bom]
           taken == [t EXCEPT !.quantity[c] = @ - used]
           consumed == ConsumeComponent(t, row, used, TRUE)
           made == [consumed EXCEPT !.quantity[i] = @ + n]
<1>1. c \in Item /\ i \in Item /\ row.needed \in Nat
  BY WorksAssumption DEF Order
<1>2. taken \in ExactTables(p)
  <2>1. t.quantity[c] \in Nat
    BY <1>1 DEF ExactTables, TablesType
  <2>2. t.quantity[c] + (-used) >= 0 /\ -used \in Int
        /\ t.quantity[c] - used = t.quantity[c] + (-used)
    BY <2>1
  <2> HIDE DEF c
  <2>3. [t EXCEPT !.quantity[c] = @ + (-used)] \in ExactTables(p)
    BY <1>1, <2>2, ShelfExact
  <2> QED BY <2>2, <2>3
<1>3. consumed = Unreserve(taken, c, row.needed)
  BY DEF ConsumeComponent, Released, SingleShot
<1>4. consumed \in ExactTables(q)
  <2> HIDE DEF taken, consumed
  <2>1. \A j \in Item : q[j] = IF j = c THEN p[j] - row.needed ELSE p[j]
    OBVIOUS
  <2> HIDE DEF c
  <2> QED BY <1>1, <1>2, <1>3, <2>1, UnreserveExact
<1>5. made \in ExactTables(q)
  <2> HIDE DEF consumed, i
  <2>1. consumed.quantity[i] + n >= 0 /\ n \in Int
    BY <1>1, <1>4 DEF ExactTables, TablesType
  <2> QED BY <1>1, <1>4, <2>1, ShelfExact
<1>6. Allocate(made, i) \in ExactTables(q)
  <2>1. ExactTables(q) \in SUBSET TablesType
    BY DEF ExactTables
  <2>2. Keeps(ExactTables(q))
    BY ExactKeeps
  <2> HIDE DEF made
  <2> QED BY <1>5, <2>1, <2>2, AllocateKeepsAll
<1>7. RunTables(t, row, n, used, TRUE) = IF row.bom \in NeedsQC THEN consumed ELSE Allocate(made, i)
  BY DEF RunTables
<1> QED BY <1>4, <1>6, <1>7

\* The counter is exact where the tables are exact for what the orders keep.
LEMMA ExactForm ==
  WorksTypeOK => (CounterExact <=> Tables \in ExactTables(Kept(orders)))
<1> SUFFICES ASSUME WorksTypeOK
             PROVE  CounterExact <=> Tables \in ExactTables(Kept(orders))
  OBVIOUS
<1>1. Tables \in TablesType /\ Tables.reserved = reserved
  BY TablesTyped DEF WorksTypeOK
<1>2. ASSUME NEW i \in Item PROVE Kept(orders)[i] = OrdersNeed(i)
  BY DEF Kept, NeedRows, Need, OrdersNeed
<1> QED BY <1>1, <1>2 DEF CounterExact, ExactTables, Exact

\* The steps that leave alone what the orders keep.
LEMMA KeptStep ==
  ASSUME WorksInv, WorksOnly, NEW p \in [Item -> Nat], p = Kept(orders),
         Tables \in ExactTables(p),
         \A o \in DOMAIN orders : orders'[o].completed = orders[o].completed
  PROVE  \E q \in [Item -> Nat] : q = Kept(orders') /\ Tables' \in ExactTables(q)
<1>1. /\ TypeOK /\ orders \in Seq(Order) /\ Tables \in TablesType
      /\ inspections \in Seq(Inspection)
      /\ \A o \in DOMAIN orders : orders[o] \in Order
  BY TablesTyped DEF WorksInv, WorksTypeOK
<1>2. \A n \in Batches : n \in Nat \ {0}
  BY WorksAssumption
<1>3. UNCHANGED shopVars => Tables' \in ExactTables(p)
  BY DEF shopVars, stock, Tables
<1>4. ASSUME NEW q \in [Item -> Nat], NEW t \in ExactTables(q), Commit(t)
      PROVE  Tables' \in ExactTables(q)
  <2>1. t \in TablesType
    BY DEF ExactTables
  <2> QED BY <1>4, <2>1, CommitTables
<1>5. ASSUME NEW b \in Bom, NEW n \in Nat \ {0}
      PROVE  NewOrder(b, n) \in Order /\ \A i : Need(NewOrder(b, n), i) = 0
  BY NewOrderType DEF NewOrder, Need, ReservedStates
<1>6. ASSUME NEW b \in Bom, NEW n \in Batches, CreateOrder(b, n)
      PROVE  p = Kept(orders') /\ Tables' \in ExactTables(p)
  BY <1>1, <1>2, <1>3, <1>5, <1>6, KeptAppend DEF CreateOrder
<1>7. ASSUME NEW o \in DOMAIN orders, NEW row \in Order, PutOrder(o, row)
      PROVE  LET q == Kept(orders')
             IN  /\ q \in [Item -> Nat]
                 /\ \A i \in Item : q[i] = p[i] - Need(orders[o], i) + Need(row, i)
  <2>1. PICK s, r : s = orders /\ r = orders'
    OBVIOUS
  <2>2. r = [s EXCEPT ![o] = row] /\ s \in Seq(Order) /\ o \in DOMAIN s
    BY <1>1, <1>7, <2>1 DEF PutOrder
  <2>3. r \in Seq(Order) /\ \A i \in Item : Kept(r)[i] = Kept(s)[i] - Need(s[o], i) + Need(row, i)
    BY <2>2, KeptPut
  <2>4. Kept(r) \in [Item -> Nat]
    BY <2>3, KeptType
  <2> QED BY <2>1, <2>3, <2>4
<1>8. ASSUME NEW o \in DOMAIN orders, NEW row \in Order, PutOrder(o, row),
             \A i \in Item : Need(row, i) = Need(orders[o], i)
      PROVE  p = Kept(orders')
  <2>1. PICK q : q = Kept(orders')
    OBVIOUS
  <2>2. q \in [Item -> Nat] /\ \A i \in Item : q[i] = p[i] - Need(orders[o], i) + Need(row, i)
    BY <1>7, <1>8, <2>1
  <2>3. \A i \in Item : Need(row, i) \in Nat /\ Need(row, i) = Need(orders[o], i)
    BY <1>8, NeedType
  <2>4. \A i \in Item : q[i] = p[i]
    BY <2>2, <2>3
  <2> QED BY <2>1, <2>2, <2>4
<1>9. ASSUME NEW o \in DOMAIN orders, NEW st \in OrderStatus
      PROVE  LET row == [orders[o] EXCEPT !.status = st]
             IN  /\ row \in Order /\ row.status = st /\ row.needed = orders[o].needed
                 /\ row.bom = orders[o].bom
  BY <1>1 DEF Order
<1>10. \A o \in DOMAIN orders : orders[o].needed \in Nat /\ Component[orders[o].bom] \in Item
                                /\ orders[o].bom \in Bom
  BY <1>1, WorksAssumption DEF Order
<1>11. ASSUME NEW o \in DOMAIN orders, NEW n \in Batches, EditOrder(o, n)
       PROVE  p = Kept(orders') /\ Tables' \in ExactTables(p)
  <2>1. \A i \in Item : Need(orders[o], i) = 0
    BY <1>11 DEF EditOrder, Need, ReservedStates
  <2> QED BY <1>2, <1>3, <1>5, <1>8, <1>10, <1>11, <2>1 DEF EditOrder
<1>12. ASSUME NEW o \in DOMAIN orders, ConfirmOrder(o)
       PROVE  Kept(orders') \in [Item -> Nat] /\ Tables' \in ExactTables(Kept(orders'))
  <2> DEFINE row == [orders[o] EXCEPT !.status = "Confirmed"]
             c == Component[orders[o].bom]
             n == orders[o].needed
  <2>1. PICK q : q = Kept(orders')
    OBVIOUS
  <2>2. row \in Order /\ row.status = "Confirmed" /\ row.needed = n /\ row.bom = orders[o].bom
    BY <1>9 DEF OrderStatus
  <2>3. q \in [Item -> Nat] /\ \A i \in Item : q[i] = p[i] - Need(orders[o], i) + Need(row, i)
    BY <1>7, <1>12, <2>1, <2>2 DEF ConfirmOrder
  <2>4. \A i \in Item : Need(orders[o], i) = 0 /\ Need(row, i) = IF i = c THEN n ELSE 0
    BY <1>12, <2>2 DEF ConfirmOrder, Need, ReservedStates
  <2>5. c \in Item /\ n \in Nat
    BY <1>10
  <2> HIDE DEF row, c, n
  <2>6. \A i \in Item : q[i] = IF i = c THEN p[i] + n ELSE p[i]
    BY <2>3, <2>4, <2>5
  <2>7. Reserve(Tables, c, n) \in ExactTables(q)
    BY <2>3, <2>5, <2>6, ReserveExact
  <2> QED BY <1>4, <1>12, <2>1, <2>3, <2>7 DEF ConfirmOrder, c, n
<1>13. ASSUME NEW o \in DOMAIN orders, StartOrder(o)
       PROVE  p = Kept(orders') /\ Tables' \in ExactTables(p)
  <2> DEFINE row == [orders[o] EXCEPT !.status = "In Progress"]
  <2>1. /\ row \in Order /\ row.status = "In Progress" /\ row.needed = orders[o].needed
        /\ row.bom = orders[o].bom
    BY <1>9 DEF OrderStatus
  <2>2. PutOrder(o, row) /\ orders[o].status = "Confirmed" /\ UNCHANGED shopVars
    BY <1>13 DEF StartOrder
  <2> HIDE DEF row
  <2>3. \A i \in Item : Need(row, i) = Need(orders[o], i)
    BY <2>1, <2>2 DEF Need, ReservedStates
  <2> QED BY <1>3, <1>8, <2>1, <2>2, <2>3
<1>14. ASSUME NEW o \in DOMAIN orders, CancelOrder(o)
       PROVE  Kept(orders') \in [Item -> Nat] /\ Tables' \in ExactTables(Kept(orders'))
  <2> DEFINE row == [orders[o] EXCEPT !.status = "Cancelled"]
             c == Component[orders[o].bom]
             n == orders[o].needed
  <2>1. PICK q : q = Kept(orders')
    OBVIOUS
  <2>2. row \in Order /\ row.status = "Cancelled"
    BY <1>9 DEF OrderStatus
  <2>3. q \in [Item -> Nat] /\ \A i \in Item : q[i] = p[i] - Need(orders[o], i) + Need(row, i)
    BY <1>7, <1>14, <2>1, <2>2 DEF CancelOrder
  <2>4. \A i \in Item : Need(row, i) = 0
    BY <2>2 DEF Need, ReservedStates
  <2>5. c \in Item /\ n \in Nat
    BY <1>10
  <2>6. CASE orders[o].status \in ReservedStates
    <3>1. \A i \in Item : Need(orders[o], i) = IF i = c THEN n ELSE 0
      BY <2>6 DEF Need
    <3>2. Commit(Unreserve(Tables, c, n))
      BY <1>14, <2>6 DEF CancelOrder
    <3> HIDE DEF row, c, n
    <3>3. \A i \in Item : q[i] = IF i = c THEN p[i] - n ELSE p[i]
      BY <2>3, <2>4, <2>5, <3>1
    <3>4. Unreserve(Tables, c, n) \in ExactTables(q)
      BY <2>3, <2>5, <3>3, UnreserveExact
    <3> QED BY <1>4, <2>1, <2>3, <3>2, <3>4
  <2>7. CASE orders[o].status \notin ReservedStates
    <3>1. \A i \in Item : Need(orders[o], i) = 0
      BY <2>7 DEF Need
    <3> HIDE DEF row
    <3>2. q = p
      <4>1. \A i \in Item : q[i] = p[i]
        BY <2>3, <2>4, <3>1
      <4> QED BY <2>3, <4>1
    <3> QED BY <1>4, <1>14, <2>1, <2>7, <3>2 DEF CancelOrder
  <2> QED BY <2>6, <2>7
<1>15. ASSUME NEW o \in DOMAIN orders, NEW n \in Quantities, NEW used, NEW close,
              CompleteOrder(o, n, used, close)
       PROVE  FALSE
  <2>1. n \in Nat \ {0} /\ orders[o].completed \in Nat
    BY <1>1, ShopAssumption DEF Order
  <2>2. orders'[o] = CompletedRow(orders[o], n, close)
    BY <1>1, <1>15 DEF CompleteOrder, PutOrder
  <2>3. CompletedRow(orders[o], n, close).completed = orders[o].completed + n
    BY <1>1 DEF CompletedRow, Order
  <2> QED BY <2>1, <2>2, <2>3
<1>16. ASSUME NEW x \in DOMAIN inspections, NEW passed \in Quantities \cup {0},
              NEW rework \in Quantities \cup {0}, ResolveInspection(x, passed, rework)
       PROVE  p = Kept(orders') /\ Tables' \in ExactTables(p)
  <2> DEFINE bom == orders[inspections[x].order].bom
             i == Output[bom]
  <2>1. bom \in Bom /\ i \in Item /\ passed \in Nat /\ rework \in Nat
    <3>1. inspections[x].order \in DOMAIN orders
      BY DEF WorksInv, Recorded
    <3> QED BY <1>10, <3>1, ShopAssumption, WorksAssumption
  <2>2. [Tables EXCEPT !.quantity[i] = @ + passed] \in ExactTables(p)
    <3>1. Tables.quantity[i] + passed >= 0 /\ passed \in Int
      BY <1>1, <2>1 DEF TablesType
    <3> HIDE DEF i
    <3> QED BY <2>1, <3>1, ShelfExact
  <2>3. Tables' \in ExactTables(p)
    BY <1>4, <1>16, <2>2 DEF ResolveInspection
  <2>4. p = Kept(orders')
    <3>1. CASE UNCHANGED orders
      BY <3>1
    <3>2. CASE rework > 0 /\ orders' = Append(orders, NewOrder(bom, rework))
      <4> HIDE DEF bom
      <4> QED BY <1>1, <1>5, <2>1, <3>2, KeptAppend
    <3> QED BY <1>16, <3>1, <3>2 DEF ResolveInspection
  <2> QED BY <2>3, <2>4
<1> QED
  BY <1>6, <1>11, <1>12, <1>13, <1>14, <1>15, <1>16 DEF WorksOnly

\* A regular run takes from the counter what its order kept.
LEMMA RegularRunStep ==
  ASSUME WorksInv, RegularRun, NEW p \in [Item -> Nat], p = Kept(orders),
         Tables \in ExactTables(p)
  PROVE  \E q \in [Item -> Nat] : q = Kept(orders') /\ Tables' \in ExactTables(q)
<1>1. PICK o \in DOMAIN orders, n \in Quantities, used \in Quantities \cup {0} :
        /\ orders[o].status \in ReservedStates
        /\ orders[o].completed = 0
        /\ CompleteOrder(o, n, used, TRUE)
  BY DEF RegularRun
<1> DEFINE old == orders[o]
           row == CompletedRow(old, n, TRUE)
           c == Component[old.bom]
<1>2. /\ orders \in Seq(Order) /\ old \in Order /\ old.needed \in Nat /\ c \in Item
      /\ Tables.quantity = quantity /\ Tables \in TablesType
      /\ n \in Nat /\ used \in Nat
  <2>1. orders \in Seq(Order) /\ Tables.quantity = quantity /\ Tables \in TablesType
    BY TablesTyped DEF WorksInv, WorksTypeOK
  <2>2. old \in Order
    BY <2>1
  <2>3. old.needed \in Nat /\ old.bom \in Bom
    BY <2>2 DEF Order
  <2> HIDE DEF old
  <2> QED BY <2>1, <2>2, <2>3, ShopAssumption, WorksAssumption
<1>3. /\ used <= Tables.quantity[c]
      /\ Commit(RunTables(Tables, old, n, used, TRUE))
      /\ orders' = [orders EXCEPT ![o] = row]
  BY <1>1, <1>2 DEF CompleteOrder, PutOrder
<1>4. row \in Order /\ row.status = "Completed"
  <2>1. row \in Order
    BY <1>2, CompletedRowType
  <2>2. row.status = "Completed"
    BY <1>2 DEF CompletedRow, Order
  <2> QED BY <2>1, <2>2
<1>5. PICK s, r : s = orders /\ r = orders'
  OBVIOUS
<1>6. /\ r \in Seq(Order)
      /\ \A i \in Item : Kept(r)[i] = Kept(s)[i] - Need(s[o], i) + Need(row, i)
  <2> HIDE DEF row
  <2> QED BY <1>2, <1>3, <1>4, <1>5, KeptPut
<1>7. PICK q : q = Kept(r)
  OBVIOUS
<1>8. q \in [Item -> Nat]
  BY <1>6, <1>7, KeptType
<1>9. \A i \in Item : Need(row, i) = 0 /\ Need(old, i) = IF i = c THEN old.needed ELSE 0
  <2>1. \A i \in Item : Need(old, i) = IF i = c THEN old.needed ELSE 0
    BY <1>1 DEF Need
  <2> HIDE DEF row
  <2>2. \A i \in Item : Need(row, i) = 0
    BY <1>4 DEF Need, ReservedStates
  <2> QED BY <2>1, <2>2
<1>10. \A i \in Item : q[i] = p[i] - Need(old, i) + Need(row, i)
  BY <1>5, <1>6, <1>7
<1>11. old.completed = 0
  BY <1>1
<1> HIDE DEF old, row
<1>12. \A i \in Item : q[i] = IF i = Component[old.bom] THEN p[i] - old.needed ELSE p[i]
  BY <1>2, <1>8, <1>9, <1>10
<1>13. RunTables(Tables, old, n, used, TRUE) \in ExactTables(q)
  BY <1>2, <1>3, <1>8, <1>11, <1>12, RegularRunExact
<1>14. Tables' \in ExactTables(q)
  <2>1. RunTables(Tables, old, n, used, TRUE) \in TablesType
    BY <1>13 DEF ExactTables
  <2> QED BY <1>3, <1>13, <2>1, CommitTables
<1> QED BY <1>5, <1>7, <1>8, <1>14

\* Whatever is not an irregular run keeps the counter exact.
LEMMA DriftStep ==
  WorksInv /\ WorksInv' /\ [WorksNext]_worksVars /\ CounterExact /\ ~IrregularRun
    => CounterExact'
<1> SUFFICES ASSUME WorksInv, WorksInv', [WorksNext]_worksVars, CounterExact, ~IrregularRun
             PROVE  CounterExact'
  OBVIOUS
<1>1. WorksTypeOK /\ TypeOK /\ orders \in Seq(Order) /\ WorksTypeOK'
  BY DEF WorksInv, WorksTypeOK
<1>2. PICK p : p = Kept(orders)
  OBVIOUS
<1>3. p \in [Item -> Nat] /\ Tables \in ExactTables(p)
  BY <1>1, <1>2, KeptType, ExactForm
<1>4. \E q \in [Item -> Nat] : q = Kept(orders') /\ Tables' \in ExactTables(q)
  <2>1. CASE ShopOnly \/ UNCHANGED worksVars
    <3>1. UNCHANGED orders /\ [ShopNext]_shopVars
      BY <2>1 DEF ShopOnly, worksVars
    <3>2. ExactTables(p) \in SUBSET TablesType
      BY DEF ExactTables
    <3>3. Keeps(ExactTables(p))
      BY <1>3, ExactKeeps
    <3>4. Tables' \in ExactTables(p)
      BY <1>1, <1>3, <3>1, <3>2, <3>3, StepKeeps
    <3> QED BY <1>2, <1>3, <3>1, <3>4
  <2>2. CASE RegularRun
    BY <1>2, <1>3, <2>2, RegularRunStep
  <2>3. CASE WorksOnly /\ ~RegularRun
    <3>1. \A o \in DOMAIN orders : orders'[o].completed = orders[o].completed
      BY <2>3 DEF IrregularRun
    <3> QED BY <1>2, <1>3, <2>3, <3>1, KeptStep
  <2> QED BY <2>1, <2>2, <2>3 DEF WorksNext
<1>5. Tables' \in ExactTables(Kept(orders'))
  BY <1>4
<1>6. WorksTypeOK' => (CounterExact' <=> (Tables \in ExactTables(Kept(orders)))')
  BY ExactForm, PTL
<1> QED BY <1>1, <1>5, <1>6

\* The counter that the shop and production both write is what the customers
\* hold and the open orders need, for any recipes and in whatever order the two
\* sides act, and only a run reported on a draft or on part of an order takes
\* it away from that.
THEOREM WorksOnlyIrregularRunsDrift == WorksSpec => OnlyIrregularRunsDrift
<1>1. WorksInv /\ WorksInv' /\ [WorksNext]_worksVars
        => [CounterExact /\ ~IrregularRun => CounterExact']_worksVars
  BY DriftStep
<1> QED BY <1>1, WorksInductive, PTL DEF WorksSpec, OnlyIrregularRunsDrift
-----------------------------------------------------------------------------
(***************************************************************************)
(* What the shop promises survives production.  Production writes the      *)
(* shelf, the counter and, through allocate, the promises; it leaves the   *)
(* sales, the purchases and the customers' rows to the shop.               *)
(***************************************************************************)

\* G is about the rows of the shop, and not about the shelf or the counter.
AboutRows(G) ==
  \A t \in G, u \in TablesType :
    u.holds = t.holds /\ u.commitments = t.commitments /\ u.sales = t.sales => u \in G

\* The counter is not a row.
LEMMA CounterKeeps ==
  ASSUME NEW G \in SUBSET TablesType, AboutRows(G), NEW t \in G, NEW i \in Item, NEW n \in Nat
  PROVE  Reserve(t, i, n) \in G /\ Unreserve(t, i, n) \in G
<1>1. t \in TablesType
  OBVIOUS
<1>2. Reserve(t, i, n) \in TablesType /\ Unreserve(t, i, n) \in TablesType
  BY <1>1, ReserveType
<1>3. /\ Reserve(t, i, n).holds = t.holds /\ Unreserve(t, i, n).holds = t.holds
      /\ Reserve(t, i, n).commitments = t.commitments
      /\ Unreserve(t, i, n).commitments = t.commitments
      /\ Reserve(t, i, n).sales = t.sales /\ Unreserve(t, i, n).sales = t.sales
  BY <1>1 DEF Reserve, Unreserve, TablesType
<1> QED BY <1>2, <1>3 DEF AboutRows

\* Neither is the shelf.
LEMMA ShelfKeeps ==
  ASSUME NEW G \in SUBSET TablesType, AboutRows(G), NEW t \in G, NEW i \in Item, NEW n \in Int,
         t.quantity[i] + n >= 0
  PROVE  [t EXCEPT !.quantity[i] = @ + n] \in G
<1> DEFINE u == [t EXCEPT !.quantity[i] = @ + n]
<1>1. t \in TablesType
  OBVIOUS
<1>2. u \in TablesType
  BY <1>1, ShelfType
<1>3. u.holds = t.holds /\ u.commitments = t.commitments /\ u.sales = t.sales
  BY <1>1 DEF TablesType
<1> HIDE DEF u
<1>4. u \in G
  BY <1>2, <1>3 DEF AboutRows
<1> QED BY <1>4 DEF u

\* A run takes from the shelf and the counter, adds to the shelf, and serves.
LEMMA RunKeeps ==
  ASSUME NEW G \in SUBSET TablesType, Keeps(G), AboutRows(G), NEW t \in G, NEW row \in Order,
         NEW n \in Nat, NEW used \in Nat, NEW close, used <= t.quantity[Component[row.bom]]
  PROVE  RunTables(t, row, n, used, close) \in G
<1> DEFINE i == Component[row.bom]
           o == Output[row.bom]
           taken == [t EXCEPT !.quantity[i] = @ + (-used)]
           consumed == ConsumeComponent(t, row, used, close)
           made == [consumed EXCEPT !.quantity[o] = @ + n]
<1>1. i \in Item /\ o \in Item /\ row.needed \in Nat
  BY WorksAssumption DEF Order
<1>2. t \in TablesType /\ t.quantity[i] \in Nat
  BY <1>1 DEF TablesType
<1>3. taken \in G
  <2>1. t.quantity[i] + (-used) >= 0 /\ -used \in Int
    BY <1>2
  <2> HIDE DEF i
  <2> QED BY <1>1, <2>1, ShelfKeeps
<1>4. consumed = Unreserve(taken, i, Released(row, used, close))
  <2>1. t.quantity[i] - used = t.quantity[i] + (-used)
    BY <1>2
  <2> QED BY <2>1 DEF ConsumeComponent
<1>5. Released(row, used, close) \in Nat
  BY <1>1 DEF Released
<1>6. consumed \in G
  <2> HIDE DEF consumed, taken, i
  <2> QED BY <1>1, <1>3, <1>4, <1>5, CounterKeeps
<1>7. made \in G
  <2> HIDE DEF consumed, o
  <2>1. consumed.quantity[o] + n >= 0
    BY <1>1, <1>6 DEF TablesType
  <2> QED BY <1>1, <1>6, <2>1, ShelfKeeps
<1>8. RunTables(t, row, n, used, close) =
        IF row.bom \in NeedsQC THEN consumed ELSE Allocate(made, o)
  BY DEF RunTables
<1> HIDE DEF consumed, made, o
<1> QED BY <1>6, <1>7, <1>8, AllocateKeepsAll

\* What the requests of the shop keep of its rows, those of production keep.
LEMMA WorksKeeps ==
  ASSUME NEW G \in SUBSET TablesType, Keeps(G), AboutRows(G), WorksInv, Tables \in G,
         [WorksNext]_worksVars
  PROVE  Tables' \in G
<1>1. /\ WorksTypeOK /\ TypeOK /\ Recorded /\ orders \in Seq(Order)
      /\ inspections \in Seq(Inspection) /\ Tables.quantity = quantity
  BY TablesTyped DEF WorksInv, WorksTypeOK
<1>2. ASSUME NEW t \in G, Commit(t) PROVE Tables' \in G
  BY <1>2, CommitTables
<1>3. ASSUME [ShopNext]_shopVars PROVE Tables' \in G
  BY <1>1, <1>3, StepKeeps
<1>4. ASSUME NEW o \in DOMAIN orders
      PROVE  /\ orders[o] \in Order /\ orders[o].needed \in Nat
             /\ Component[orders[o].bom] \in Item /\ Output[orders[o].bom] \in Item
  <2>1. orders[o] \in Order
    BY <1>1
  <2> QED BY <2>1, WorksAssumption DEF Order
<1>5. CASE ShopOnly \/ UNCHANGED worksVars
  BY <1>3, <1>5 DEF ShopOnly, worksVars
<1>6. CASE \/ \E b \in Bom, n \in Batches : CreateOrder(b, n)
           \/ \E o \in DOMAIN orders, n \in Batches : EditOrder(o, n)
           \/ \E o \in DOMAIN orders : StartOrder(o)
  <2>1. UNCHANGED shopVars
    BY <1>6 DEF CreateOrder, EditOrder, StartOrder
  <2> QED BY <1>3, <2>1
<1>7. ASSUME NEW o \in DOMAIN orders, ConfirmOrder(o) PROVE Tables' \in G
  <2>1. Reserve(Tables, Component[orders[o].bom], orders[o].needed) \in G
    BY <1>4, CounterKeeps
  <2> QED BY <1>2, <1>7, <2>1 DEF ConfirmOrder
<1>8. ASSUME NEW o \in DOMAIN orders, CancelOrder(o) PROVE Tables' \in G
  <2>1. Unreserve(Tables, Component[orders[o].bom], orders[o].needed) \in G
    BY <1>4, CounterKeeps
  <2> QED BY <1>2, <1>8, <2>1 DEF CancelOrder
<1>9. ASSUME NEW o \in DOMAIN orders, NEW n \in Quantities, NEW used \in Quantities \cup {0},
             NEW close \in BOOLEAN, CompleteOrder(o, n, used, close)
      PROVE  Tables' \in G
  <2>1. n \in Nat /\ used \in Nat
    BY ShopAssumption
  <2>2. /\ used <= Tables.quantity[Component[orders[o].bom]]
        /\ Commit(RunTables(Tables, orders[o], n, used, close))
    BY <1>1, <1>9 DEF CompleteOrder
  <2>3. RunTables(Tables, orders[o], n, used, close) \in G
    BY <1>4, <2>1, <2>2, RunKeeps
  <2> QED BY <1>2, <2>2, <2>3
<1>10. ASSUME NEW x \in DOMAIN inspections, NEW passed \in Quantities \cup {0},
              NEW rework \in Quantities \cup {0}, ResolveInspection(x, passed, rework)
       PROVE  Tables' \in G
  <2>1. PICK i : i = Output[orders[inspections[x].order].bom]
    OBVIOUS
  <2>2. i \in Item
    BY <1>1, <1>4, <2>1 DEF Recorded
  <2>3. Commit([Tables EXCEPT !.quantity[i] = @ + passed])
    BY <1>10, <2>1 DEF ResolveInspection
  <2>4. passed \in Nat
    BY ShopAssumption
  <2>5. Tables.quantity[i] + passed >= 0
    BY <1>1, <2>2, <2>4 DEF TypeOK
  <2>6. [Tables EXCEPT !.quantity[i] = @ + passed] \in G
    BY <2>2, <2>4, <2>5, ShelfKeeps
  <2> QED BY <1>2, <2>3, <2>6
<1> QED BY <1>5, <1>6, <1>7, <1>8, <1>9, <1>10, Zenon DEF WorksNext, WorksOnly

\* Promises add up with production serving them too, whatever it does to the
\* counter (commitments.py, allocate called from manufacturing.py).
THEOREM WorksPromisesAddUp == WorksSpec => []PromisesAddUp
<1>1. WorksInit => Tables \in SoundTables
  BY ShopInitSound DEF WorksInit
<1>2. WorksInv /\ Tables \in SoundTables /\ [WorksNext]_worksVars => (Tables \in SoundTables)'
  <2>1. SoundTables \in SUBSET TablesType
    BY DEF SoundTables
  <2>2. AboutRows(SoundTables)
    BY SameSound DEF AboutRows
  <2> QED BY <2>1, <2>2, SoundKeeps, WorksKeeps
<1>3. Tables \in SoundTables => PromisesAddUp
  BY TablesTyped DEF SoundTables, Sound, PromisesAddUp
<1> QED BY <1>1, <1>2, <1>3, WorksInductive, PTL DEF WorksSpec

\* The movements under a sale's invoice are what left the shelf for it with
\* production writing the same shelf (sale_reversal.py, delivered_quantity).
THEOREM WorksSaleMovementsNetOut == WorksSpec => []SaleMovementsNetOut
<1>1. WorksInit => Tables \in BookedTables
  BY ShopInitBooked DEF WorksInit
<1>2. WorksInv /\ Tables \in BookedTables /\ [WorksNext]_worksVars => (Tables \in BookedTables)'
  <2>1. BookedTables \in SUBSET TablesType
    BY DEF BookedTables
  <2>2. AboutRows(BookedTables)
    BY SameBooked DEF AboutRows, Awaiting
  <2> QED BY <2>1, <2>2, BookedKeeps, WorksKeeps
<1>3. Tables \in BookedTables => SaleMovementsNetOut
  BY TablesTyped DEF BookedTables, Even, SaleMovementsNetOut
<1> QED BY <1>1, <1>2, <1>3, WorksInductive, PTL DEF WorksSpec

\* A purchase is counted in once and out once with production beside: what a
\* receipt lands and what a correction takes back are its own goods.
THEOREM WorksReceiptCountedOnce == WorksSpec => []ReceiptCountedOnce
<1>1. WorksInit => ReceiptCountedOnce
  BY DEF WorksInit, ShopInit, ReceiptCountedOnce
<1>2. WorksInv /\ ReceiptCountedOnce /\ [WorksNext]_worksVars => ReceiptCountedOnce'
  <2> SUFFICES ASSUME WorksInv, ReceiptCountedOnce, [WorksNext]_worksVars
               PROVE  ReceiptCountedOnce'
    OBVIOUS
  <2>1. TypeOK
    BY DEF WorksInv, WorksTypeOK
  <2>2. CASE ShopOnly \/ UNCHANGED worksVars
    BY <2>1, <2>2, ReceiptStep DEF ShopOnly, worksVars
  <2>3. CASE WorksOnly
    <3>1. UNCHANGED purchases
      BY <2>3
         DEF WorksOnly, CreateOrder, EditOrder, ConfirmOrder, StartOrder, CancelOrder,
             CompleteOrder, ResolveInspection, shopVars
    <3> QED BY <3>1 DEF ReceiptCountedOnce
  <2> QED BY <2>2, <2>3 DEF WorksNext
<1> QED BY <1>1, <1>2, WorksInductive, PTL DEF WorksSpec

=============================================================================
