--------------------------- MODULE Reservations ---------------------------
(***************************************************************************)
(* backend/reservations.py: stock held for named customers.                *)
(*                                                                         *)
(* Two numbers describe what is spoken for.  `reserved` is the counter     *)
(* inventory.reserved_quantity that every availability check reads, and    *)
(* that manufacturing writes directly; `holds` are the rows of             *)
(* stock_reservations, in id order, that say which customer a hold belongs *)
(* to.  The operators below are the functions of that file: they take the  *)
(* stock tables as a record t and return what they become, so that a       *)
(* handler that makes several calls is the composition of several          *)
(* operators and still one step.                                           *)
(*                                                                         *)
(* Quantities are whole units: the six-decimal rounding and the _EPS       *)
(* tolerance of the code are exact on them.                                *)
(***************************************************************************)
EXTENDS Sums

CONSTANTS Item,     \* rows of the inventory table
          Client    \* named customers

HoldStatus == {"held", "released", "collected"}

\* A row of stock_reservations.
Hold == [item : Item, client : Client, quantity : Nat \ {0}, status : HoldStatus]

\* What each row still keeps aside of item i for one of the clients in who.
HeldRows(t, i, who) ==
  [h \in DOMAIN t.holds |->
     IF /\ t.holds[h].item = i
        /\ t.holds[h].client \in who
        /\ t.holds[h].status = "held"
     THEN t.holds[h].quantity
     ELSE 0]

CustomerHeld(t, i) == SeqSum(HeldRows(t, i, Client))

\* A walk-in sale has no client and nothing held for it: no row has its name.
HeldFor(t, i, c) == SeqSum(HeldRows(t, i, {c}))

\* Whatever of the counter the customers' rows do not account for.
ProductionShare(t, i) == AtLeastZero(t.reserved[i] - CustomerHeld(t, i))

\* On hand minus everything spoken for; negative when more is spoken for.
Available(t, i) == t.quantity[i] - t.reserved[i]

\* The counter rewritten as production's share plus the rows that are held.
Sync(t, i, production) ==
  [t EXCEPT !.reserved[i] = production + CustomerHeld(t, i)]

\* hold() raises unless this holds.
CanHold(t, i, q) == q > 0 /\ q <= Available(t, i)

PlaceHold(t, i, c, q) ==
  LET row == [item |-> i, client |-> c, quantity |-> q, status |-> "held"]
  IN  Sync([t EXCEPT !.holds = Append(@, row)], i, ProductionShare(t, i))

\* Mutant: production's share read after the row is closed.
CloseReadsShareLate(t, h, status) ==
  LET i    == t.holds[h].item
      gone == [t EXCEPT !.holds[h].status = status]
  IN  IF t.holds[h].status # "held" THEN t ELSE Sync(gone, i, ProductionShare(gone, i))

\* close(): a row that is closed already is left as it is.
Close(t, h, status) ==
  LET i == t.holds[h].item
  IN  IF t.holds[h].status # "held"
      THEN t
      ELSE Sync([t EXCEPT !.holds[h].status = status], i, ProductionShare(t, i))

\* How much of each of c's holds is drawn when q is taken, oldest row first.
Drawn(t, i, c, q) ==
  LET mine == HeldRows(t, i, {c})
  IN  [h \in DOMAIN t.holds |-> Lesser(mine[h], AtLeastZero(q - SumTo(mine, h - 1)))]

\* A row drawn in full is closed as `status` and keeps its quantity; a row
\* drawn in part stays held for the rest.
Draw(row, n, status) ==
  IF n = 0 THEN row
  ELSE IF n = row.quantity THEN [row EXCEPT !.status = status]
  ELSE [row EXCEPT !.quantity = @ - n]

\* consume(): the counter is only rewritten when something was drawn.
Consume(t, i, c, q, status) ==
  LET drawn == Drawn(t, i, c, q)
      rows  == [h \in DOMAIN t.holds |-> Draw(t.holds[h], drawn[h], status)]
  IN  IF \A h \in DOMAIN t.holds : drawn[h] = 0
      THEN t
      ELSE Sync([t EXCEPT !.holds = rows], i, ProductionShare(t, i))
===========================================================================
