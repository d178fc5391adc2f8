---------------------------- MODULE Commitments ----------------------------
(***************************************************************************)
(* backend/commitments.py: units sold and paid for that were not on the    *)
(* shelf.  A commitment keeps nothing in the stock tables until goods      *)
(* arrive; allocate() then turns as much of it as it can into a hold.      *)
(*                                                                         *)
(* t.commitments are the rows of sale_commitments, in the order            *)
(* (created_at, id) in which open_for() reads them.                        *)
(***************************************************************************)
EXTENDS Reservations

CommitmentStatus == {"awaiting", "fulfilled", "cancelled"}

\* A row of sale_commitments; `sale` is the till sale whose line it belongs to.
Commitment ==
  [sale : Nat \ {0}, item : Item, client : Client, ordered : Nat \ {0},
   fulfilled : Nat, allocated : Nat, status : CommitmentStatus]

Awaiting(t, k) == t.commitments[k].status = "awaiting"

OpenFor(t, i) ==
  {k \in DOMAIN t.commitments : t.commitments[k].item = i /\ Awaiting(t, k)}

Outstanding(t, k) == t.commitments[k].ordered - t.commitments[k].fulfilled

\* Mutant: what is on the shelf with its name is not counted.
WantAllOutstanding(t, k) == Outstanding(t, k)

\* Still to be put aside: not handed over, and not on the shelf with its name.
Want(t, k) == Outstanding(t, k) - t.commitments[k].allocated

Promise(t, s, i, c, q) ==
  LET row == [sale |-> s, item |-> i, client |-> c, ordered |-> q,
              fulfilled |-> 0, allocated |-> 0, status |-> "awaiting"]
  IN  [t EXCEPT !.commitments = Append(@, row)]

\* One turn of the loop of allocate().
Serve(t, k) ==
  LET row  == t.commitments[k]
      take == Lesser(Want(t, k), Available(t, row.item))
  IN  IF take > 0
      THEN [PlaceHold(t, row.item, row.client, take)
              EXCEPT !.commitments[k].allocated = @ + take]
      ELSE t

\* Mutant: the newest commitment first.
AllocateNewestFirst(t, i) ==
  LET n == Len(t.commitments)
      served[k \in 0 .. n] ==
        IF k = 0 THEN t
        ELSE IF (n + 1) - k \in OpenFor(t, i) THEN Serve(served[k - 1], (n + 1) - k)
        ELSE served[k - 1]
  IN  served[n]

\* The whole loop, oldest commitment first.  It stops at the first turn that
\* finds nothing free, and every turn after that would have served nobody.
Allocate(t, i) ==
  LET served[k \in 0 .. Len(t.commitments)] ==
        IF k = 0 THEN t
        ELSE IF k \in OpenFor(t, i) THEN Serve(served[k - 1], k)
        ELSE served[k - 1]
  IN  served[Len(t.commitments)]

MarkFulfilled(t, k, q) ==
  LET row  == t.commitments[k]
      done == row.fulfilled + q
      left == AtLeastZero(row.allocated - q)
  IN  [t EXCEPT !.commitments[k] =
         IF done >= row.ordered
         THEN [row EXCEPT !.fulfilled = row.ordered, !.allocated = left,
                          !.status = "fulfilled"]
         ELSE [row EXCEPT !.fulfilled = done, !.allocated = left]]

\* cancel(): what was put aside is drawn from the customer's holds, as released.
Cancel(t, k) ==
  LET row == t.commitments[k]
  IN  [Consume(t, row.item, row.client, row.allocated, "released")
         EXCEPT !.commitments[k] =
           [row EXCEPT !.status = "cancelled", !.allocated = 0]]

\* cancel_for_invoice(): a sale has one line here, so at most one open promise.
CancelForInvoice(t, s) ==
  LET open == {k \in DOMAIN t.commitments : t.commitments[k].sale = s /\ Awaiting(t, k)}
  IN  IF open = {} THEN t ELSE Cancel(t, CHOOSE k \in open : TRUE)
============================================================================
