------------------------------- MODULE Drawer -------------------------------
(***************************************************************************)
(* The cash of one cashier's register, routers/pos.py with the panels of   *)
(* pages/pos: a session is opened with a float, sales are rung, corrected, *)
(* returned and voided, and the count at closing is compared with what the *)
(* rows of the session say should be there.  The cashier of this model     *)
(* counts truthfully: the count is the money in the drawer.                *)
(*                                                                         *)
(* One currency: the code computes each on its own, in the same way.       *)
(***************************************************************************)
EXTENDS Sums, FiniteSets, FiniteSetsExt

CONSTANTS
  Amount,        \* what sales and deposits come to, and floats
  MaxSessions,   \* bound: sessions opened
  MaxSales       \* bound: sales rung, corrections included

ASSUME DrawerAssumption ==
  Amount \subseteq Nat \ {0} /\ MaxSessions \in Nat /\ MaxSales \in Nat

VARIABLES
  sessions,      \* pos_sessions, in order of id
  sales,         \* pos_sales with its invoice and payment, in order of id
  returns,       \* pos_returns
  opening,       \* requests to open that found no open session
  drawer,        \* the notes in the drawer
  taken,         \* per sale as the customer sees it: what they have paid
  tainted        \* sessions of a case listed at OnlyKnownDrift

drawerVars == <<sessions, sales, returns, opening, drawer, taken, tainted>>

-----------------------------------------------------------------------------
Method == {"Cash", "Card"}

Session == [status : {"open", "closed"}, float : Nat, expected : Int, counted : Int]

(* net is amount_tendered - change_given; paid is what the sale asks for   *)
(* at the till and its invoice's payment row says: the total, or the       *)
(* deposit of an instalment plan; first is the sale a chain of corrections *)
(* began with.                                                             *)
SaleRow == [session : Nat \ {0}, method : Method, net : Int, paid : Nat, first : Nat,
            status : {"completed", "amended", "returned"}, voided : BOOLEAN]

Return == [sale : Nat, session : Nat]

DrawerTypeOK ==
  /\ sessions \in Seq(Session) /\ sales \in Seq(SaleRow)
  /\ returns \subseteq [sale : DOMAIN sales, session : DOMAIN sessions]
  /\ opening \in Nat /\ drawer \in Int
  /\ taken \in Seq(Int) /\ Len(taken) = Len(sales)
  /\ tainted \subseteq DOMAIN sessions

(* The SUM(...) over the rows of S of one column, and the two columns.     *)
Total(column, S) == SeqSum([s \in DOMAIN column |-> IF s \in S THEN column[s] ELSE 0])
Nets == [s \in DOMAIN sales |-> sales[s].net]
Totals == [s \in DOMAIN sales |-> sales[s].paid]

(* _open_session: the cashier's latest open session, 0 when there is none. *)
OpenSessions == {i \in DOMAIN sessions : sessions[i].status = "open"}
Current == IF OpenSessions = {} THEN 0 ELSE Max(OpenSessions)
HasSession == Current # 0

-----------------------------------------------------------------------------
CashSales(i) == {s \in DOMAIN sales : sales[s].session = i /\ sales[s].method = "Cash"}

CashIn(i) == Total(Nets, CashSales(i))

(* The sales whose return this session processed. *)
Refunded(i) ==
  Total(Nets, {s \in DOMAIN sales :
                 sales[s].method = "Cash" /\ [sale |-> s, session |-> i] \in returns})

ReturnedSale(s) == \E r \in returns : r.sale = s

(* Voided sales of the session, those corrected or returned left out. *)
VoidedAmendedToo(i) ==
  Total(Nets, {s \in CashSales(i) : sales[s].voided /\ ~ReturnedSale(s)})

VoidedReturnedToo(i) ==
  Total(Nets, {s \in CashSales(i) : sales[s].voided /\ sales[s].status # "amended"})

Voided(i) ==
  Total(Nets, {s \in CashSales(i) :
                 sales[s].voided /\ sales[s].status # "amended" /\ ~ReturnedSale(s)})

Expected(i) == sessions[i].float + CashIn(i) - (Refunded(i) + Voided(i))

-----------------------------------------------------------------------------
DrawerInit ==
  /\ sessions = <<>> /\ sales = <<>> /\ returns = {} /\ opening = 0
  /\ drawer = 0 /\ taken = <<>> /\ tainted = {}

(* OpenRegisterPanel's request, or the one its client sends again: the     *)
(* check, and then the insert; no index keeps two inserts apart.           *)
AskToOpen ==
  /\ Len(sessions) + opening < MaxSessions
  /\ ~HasSession
  /\ opening' = opening + 1
  /\ UNCHANGED <<sessions, sales, returns, drawer, taken, tainted>>

(* The float goes into the drawer once, whatever the rows say. *)
OpenSession(float) ==
  /\ opening > 0
  /\ opening' = opening - 1
  /\ sessions' = Append(sessions, [status |-> "open", float |-> float,
                                   expected |-> 0, counted |-> 0])
  /\ IF HasSession THEN /\ tainted' = tainted \union OpenSessions \union {Len(sessions) + 1}
                        /\ UNCHANGED drawer
     ELSE drawer' = float /\ UNCHANGED tainted
  /\ UNCHANGED <<sales, returns, taken>>

(* CloseRegisterModal; the count is banked. *)
CloseSession ==
  /\ HasSession
  /\ sessions' = [sessions EXCEPT ![Current].status = "closed",
                                  ![Current].expected = Expected(Current),
                                  ![Current].counted = drawer]
  /\ drawer' = 0
  /\ UNCHANGED <<sales, returns, opening, taken, tainted>>

-----------------------------------------------------------------------------
Cash(m, n) == IF m = "Cash" THEN n ELSE 0

(* due_now; a plan may begin without a deposit. *)
Due == Amount \union {0}

(* A card is charged exactly and never below zero. *)
Net(m, due) == IF m = "Cash" \/ due > 0 THEN due ELSE 0

Row(m, total, prepaid, first) ==
  [session |-> Current, method |-> m, net |-> Net(m, total - prepaid), paid |-> total,
   first |-> first, status |-> "completed", voided |-> FALSE]

RingUnopened(m, total) ==
  /\ Len(sales) < MaxSales
  /\ sales' = Append(sales, Row(m, total, 0, Len(sales) + 1))
  /\ taken' = Append(taken, total)
  /\ drawer' = drawer + Cash(m, total)
  /\ UNCHANGED <<sessions, returns, opening, tainted>>

Ring(m, total) ==
  /\ HasSession /\ Len(sales) < MaxSales
  /\ sales' = Append(sales, Row(m, total, 0, Len(sales) + 1))
  /\ taken' = Append(taken, total)
  /\ drawer' = drawer + Cash(m, total)
  /\ UNCHANGED <<sessions, returns, opening, tainted>>

Standing(s) == sales[s].status = "completed" /\ ~sales[s].voided

(* What the invoice has been paid: the payment, not the till row. *)
PrepaidTender(s) == sales[s].net
Prepaid(s) == sales[s].paid

(* amend_sale: the sale is unwound and rung again, and only the difference *)
(* crosses the counter.                                                    *)
Amend(s, m, total) ==
  LET due == total - Prepaid(s) IN
  /\ HasSession /\ Standing(s) /\ Len(sales) < MaxSales
  /\ sales' = Append([sales EXCEPT ![s].status = "amended", ![s].voided = TRUE],
                     Row(m, total, Prepaid(s), sales[s].first))
  /\ taken' = [Append(taken, 0) EXCEPT ![sales[s].first] = @ + due]
  /\ drawer' = drawer + Cash(m, due)
  /\ UNCHANGED <<sessions, returns, opening, tainted>>

Corrected(s) == sales[s].first # s

(* return_sale: the customer gets back what the sale has taken; the rows   *)
(* remember what its last correction collected.                            *)
ReturnSale(s) ==
  /\ HasSession /\ Standing(s)
  /\ sales' = [sales EXCEPT ![s].status = "returned", ![s].voided = TRUE]
  /\ returns' = returns \union {[sale |-> s, session |-> Current]}
  /\ taken' = [taken EXCEPT ![sales[s].first] = @ - sales[s].paid]
  /\ drawer' = drawer - Cash(sales[s].method, sales[s].paid)
  /\ tainted' = IF Corrected(s) /\ sales[s].method = "Cash"
                THEN tainted \union {Current} ELSE tainted
  /\ UNCHANGED <<sessions, opening>>

(* void_invoice, from the invoice screen: the row is attributed to the     *)
(* session that rang the sale, the money comes out of the open drawer.     *)
VoidSale(s) ==
  /\ Standing(s)
  /\ sales' = [sales EXCEPT ![s].voided = TRUE]
  /\ taken' = [taken EXCEPT ![sales[s].first] = @ - sales[s].paid]
  /\ drawer' = IF HasSession THEN drawer - Cash(sales[s].method, sales[s].paid) ELSE drawer
  /\ tainted' = IF HasSession /\ sales[s].method = "Cash"
                     /\ (Corrected(s) \/ sales[s].session # Current)
                THEN tainted \union {Current} \union ({sales[s].session} \intersect OpenSessions)
                ELSE tainted
  /\ UNCHANGED <<sessions, returns, opening>>

DrawerNext ==
  \/ AskToOpen \/ CloseSession
  \/ \E f \in Amount : OpenSession(f)
  \/ \E m \in Method, a \in Due : Ring(m, a)
  \/ \E s \in DOMAIN sales :
       ReturnSale(s) \/ VoidSale(s) \/ \E m \in Method, a \in Due : Amend(s, m, a)

DrawerSpec == DrawerInit /\ [][DrawerNext]_drawerVars

-----------------------------------------------------------------------------
(* At every moment the drawer of the open session holds what its rows say, *)
(* whatever mix of sales, corrections over several sessions, returns and   *)
(* voids there was - except after a corrected sale was taken back, after a *)
(* sale of another session was voided, and with two sessions open.         *)
OnlyKnownDrift ==
  HasSession /\ Current \notin tainted => drawer = Expected(Current)

(* What the customer has paid in all, over any number of corrections, is   *)
(* what the standing sale asked for at the till, its total or its deposit, *)
(* and nothing once it is taken back (amend_sale's prepaid; "a sale        *)
(* corrected twice forgets the money").                                    *)
CustomerPaidTheTotal ==
  \A f \in DOMAIN sales :
    taken[f] = Total(Totals, {s \in DOMAIN sales : sales[s].first = f /\ Standing(s)})

(* "Expected drawer = opening float + cash taken in - cash refunded"       *)
(* (routers/pos.py, close_session): with one session at a time and nothing *)
(* voided, an honest count leaves no variance.                             *)
CountBalances ==
  \A i \in DOMAIN sessions :
    /\ sessions[i].status = "closed"
    /\ \A s \in DOMAIN sales : sales[s].voided => sales[s].status # "completed"
    /\ Cardinality(DOMAIN sessions) = 1
    => sessions[i].counted = sessions[i].expected

(* "You can only have one open session at a time" (docs/manual/docs/       *)
(* operations/pos.md).                                                     *)
OneOpenSession == Cardinality(OpenSessions) <= 1
=============================================================================
