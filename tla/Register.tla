------------------------------ MODULE Register ------------------------------
(***************************************************************************)
(* The register of the till, pages/pos/RegisterView.jsx: the search box a  *)
(* scanner types into, the products it shows, and the cart.  A term that   *)
(* is typed is looked up when the cashier pauses (the debounce) or, if the *)
(* list is empty, when Enter is pressed; the answers come in any order,    *)
(* and nothing tells the answer of one term from that of another.          *)
(*                                                                         *)
(* A quantity typed into the cart is kept as the text of the input, so     *)
(* that "+ 1" appends a digit to it; the buttons beside it convert first.  *)
(*                                                                         *)
(* The checkout dialog is modelled by what it does to the register: a sale *)
(* it sent may be answered after it was closed, and even after the         *)
(* register it belongs to has gone.                                        *)
(***************************************************************************)
EXTENDS Integers, FiniteSets

CONSTANTS
  Product, Term,
  Matches,       \* what the server finds for a term
  Sale,          \* sales that may be corrected
  LinesOf,       \* the product of each such sale, sold once
  None,
  MaxTyped,      \* bound: quantities typed
  MaxMoves       \* bound: what the cashier does

ASSUME RegisterAssumption ==
  /\ Matches \in [Term -> SUBSET Product]
  /\ LinesOf \in [Sale -> Product]
  /\ None \notin Term \union Sale
  /\ MaxTyped \in Nat /\ MaxMoves \in Nat

VARIABLES
  search, results,
  due,           \* the debounce timer of the last keystroke is running
  browsePool,    \* loaded once, when the register opens
  lookups,       \* how many searches are on their way, by [term, entered]
  cart,          \* product -> [n, typed]
  amending, seededFor,
  checkout,      \* the checkout dialog is open
  busy,          \* and has sent its sale
  left,          \* sales sent from dialogs of this register, closed since
  orphans,       \* sales sent from registers unmounted since
  meant,         \* history: product -> what the cashier meant to sell
  appended,      \* history: products whose typed quantity got a digit appended
  mistaken,      \* history: terms whose Enter put in what they do not match
  wiped,         \* history: terms cleared before they were used
  moves

boxVars == <<search, results, due, browsePool, lookups>>
cartVars == <<cart, meant, appended>>
saleVars == <<amending, seededFor>>
dialogVars == <<checkout, busy, left, orphans>>
history == <<mistaken, wiped>>
registerVars == <<boxVars, cartVars, saleVars, dialogVars, history, moves>>

-----------------------------------------------------------------------------
Lookup == [term : Term, entered : BOOLEAN]
Quantity == [n : Nat, typed : BOOLEAN]
InCart == DOMAIN cart
EmptyCart == [p \in {} |-> [n |-> 0, typed |-> FALSE]]

RegisterTypeOK ==
  /\ search \in Term \union {None} /\ results \subseteq Product
  /\ due \in BOOLEAN /\ browsePool \subseteq Product /\ lookups \in [Lookup -> Nat]
  /\ InCart \subseteq Product /\ \A p \in InCart : cart[p] \in Quantity
  /\ DOMAIN meant = Product /\ \A p \in Product : meant[p] \in Nat
  /\ amending \in Sale \union {None} /\ seededFor \in Sale \union {None}
  /\ checkout \in BOOLEAN /\ busy \in BOOLEAN /\ left \in Nat /\ orphans \in Nat
  /\ appended \subseteq Product /\ mistaken \subseteq Term /\ wiped \subseteq Term
  /\ moves \in 0 .. MaxMoves

(* Effects run before the next event: the cart of a correction is filled   *)
(* before anybody can touch it.                                            *)
Settled == amending # None => seededFor = amending
Moved == Settled /\ moves < MaxMoves /\ moves' = moves + 1

(* l.quantity + 1 *)
PlusOne(q) == IF q.typed THEN [q EXCEPT !.n = 10 * @ + 1] ELSE [q EXCEPT !.n = @ + 1]

With(p, q) == [x \in InCart \union {p} |-> IF x = p THEN q ELSE cart[x]]
Without(p) == [x \in InCart \ {p} |-> cart[x]]

(* addProduct: one more of a line that is there, or a new line. *)
AddProduct(p) ==
  /\ cart' = With(p, IF p \in InCart THEN PlusOne(cart[p]) ELSE [n |-> 1, typed |-> FALSE])
  /\ meant' = [meant EXCEPT ![p] = @ + 1]
  /\ appended' = IF p \in InCart /\ cart[p].typed /\ cart[p].n # 0
                 THEN appended \union {p} ELSE appended

VisibleProducts == IF search # None THEN results ELSE browsePool

-----------------------------------------------------------------------------
RegisterInit ==
  /\ search = None /\ results = {} /\ due = FALSE /\ browsePool = {}
  /\ lookups = [l \in Lookup |-> 0]
  /\ cart = EmptyCart
  /\ meant = [p \in Product |-> 0] /\ appended = {}
  /\ amending = None /\ seededFor = None
  /\ checkout = FALSE /\ busy = FALSE /\ left = 0 /\ orphans = 0
  /\ mistaken = {} /\ wiped = {} /\ moves = 0

(* The first page of products, fetched when the register is mounted. *)
PrimeBrowse ==
  /\ browsePool = {}
  /\ browsePool' = Product
  /\ UNCHANGED <<search, results, due, lookups, cartVars, saleVars, dialogVars, history, moves>>

(* A term typed or scanned into the box, or the box emptied: then the      *)
(* results go, but not the lookups that are under way.                     *)
Type(t) ==
  /\ Moved /\ ~checkout /\ t # search
  /\ search' = t /\ due' = (t # None)
  /\ results' = IF t = None THEN {} ELSE results
  /\ UNCHANGED <<browsePool, lookups, cartVars, saleVars, dialogVars, history>>

Ask(t, entered) ==
  lookups' = [lookups EXCEPT ![[term |-> t, entered |-> entered]] = @ + 1]

Answer(l) ==
  /\ lookups[l] > 0
  /\ lookups' = [lookups EXCEPT ![l] = @ - 1]

(* The cashier pauses for 250 ms. *)
Debounce ==
  /\ due /\ due' = FALSE
  /\ Ask(search, FALSE)
  /\ UNCHANGED <<search, results, browsePool, cartVars, saleVars, dialogVars, history, moves>>

(* A debounced answer, or its failure, replaces the results whatever is    *)
(* in the box by now.                                                      *)
Found(l) ==
  /\ ~l.entered /\ Answer(l)
  /\ results' \in {Matches[l.term], {}}
  /\ UNCHANGED <<search, due, browsePool, cartVars, saleVars, dialogVars, history, moves>>

(* The top tile, or the variant picked from it, goes into the cart and the *)
(* box is emptied.                                                         *)
TakeFrom(t, rows) ==
  \E p \in rows :
    /\ AddProduct(p)
    /\ mistaken' = IF p \in Matches[t] THEN mistaken ELSE mistaken \union {t}
    /\ wiped' = IF search \in {t, None} THEN wiped ELSE wiped \union {search}
    /\ search' = None /\ due' = FALSE
    /\ results' = {}

(* Enter acts on what is on the screen if there is something. *)
EnterOnList ==
  /\ Moved /\ ~checkout /\ search # None /\ results # {}
  /\ TakeFrom(search, results)
  /\ UNCHANGED <<browsePool, lookups, saleVars, dialogVars>>

(* Otherwise it asks for the term itself and waits. *)
EnterOnEmpty ==
  /\ Moved /\ ~checkout /\ search # None /\ results = {}
  /\ Ask(search, TRUE)
  /\ UNCHANGED <<search, results, due, browsePool, cartVars, saleVars, dialogVars, history>>

(* The answer to an Enter, even under the dialog opened meanwhile; a term  *)
(* that matches nothing, or could not be looked up, stays in the box.      *)
Entered(l) ==
  /\ l.entered /\ Answer(l)
  /\ \/ TakeFrom(l.term, Matches[l.term])
     \/ UNCHANGED <<search, results, due, cartVars, history>>
  /\ UNCHANGED <<browsePool, saleVars, dialogVars, moves>>

-----------------------------------------------------------------------------
Tap(p) ==
  /\ Moved /\ ~checkout /\ p \in VisibleProducts
  /\ AddProduct(p)
  /\ UNCHANGED <<boxVars, saleVars, dialogVars, history>>

TypeQuantity(p, n) ==
  /\ Moved /\ ~checkout /\ p \in InCart
  /\ cart' = With(p, [n |-> n, typed |-> TRUE])
  /\ meant' = [meant EXCEPT ![p] = n]
  /\ appended' = appended \ {p}
  /\ UNCHANGED <<boxVars, saleVars, dialogVars, history>>

(* bumpQty converts the text of its line first, and then drops every line  *)
(* without a positive quantity.                                            *)
BumpedKept(p, d) == With(p, [n |-> cart[p].n + d, typed |-> FALSE])

BumpedAsText(p, d) ==
  With(p, IF d > 0 THEN [PlusOne(cart[p]) EXCEPT !.typed = FALSE] ELSE cart[p])

Bumped(p, d) ==
  LET now(x) == IF x = p THEN [n |-> cart[x].n + d, typed |-> FALSE] ELSE cart[x]
  IN [x \in {y \in InCart : now(y).n > 0} |-> now(x)]

NotNegative(n) == IF n > 0 THEN n ELSE 0

BumpQty(p, d) ==
  /\ Moved /\ ~checkout /\ p \in InCart
  /\ cart' = Bumped(p, d)
  /\ meant' = [meant EXCEPT ![p] = NotNegative(@ + d)]
  /\ appended' = appended \intersect DOMAIN cart'
  /\ UNCHANGED <<boxVars, saleVars, dialogVars, history>>

RemoveLine(p) ==
  /\ Moved /\ ~checkout /\ p \in InCart
  /\ cart' = Without(p)
  /\ meant' = [meant EXCEPT ![p] = 0]
  /\ appended' = appended \ {p}
  /\ UNCHANGED <<boxVars, saleVars, dialogVars, history>>

-----------------------------------------------------------------------------
Emptied == cart' = EmptyCart /\ meant' = [p \in Product |-> 0] /\ appended' = {}

(* Leaving the tab and coming back mounts the register again, with an     *)
(* empty box and an empty cart; coming back from the history the cashier   *)
(* may have chosen a sale to correct (startAmend).                         *)
Remount(s) ==
  /\ Moved /\ ~checkout
  /\ amending' = s /\ seededFor' = None
  /\ search' = None /\ results' = {} /\ due' = FALSE /\ browsePool' = {}
  /\ lookups' = [l \in Lookup |-> 0]
  /\ Emptied
  /\ orphans' = orphans + left /\ left' = 0
  /\ UNCHANGED <<checkout, busy, history>>

(* The effect that fills the cart with the lines of the sale, once. *)
Seed ==
  /\ amending # None /\ seededFor # amending
  /\ seededFor' = amending
  /\ cart' = [p \in {LinesOf[amending]} |-> [n |-> 1, typed |-> FALSE]]
  /\ meant' = [p \in Product |-> IF p = LinesOf[amending] THEN 1 ELSE 0]
  /\ appended' = {}
  /\ UNCHANGED <<boxVars, amending, dialogVars, history, moves>>

(* Cancelling a correction forgets the sale and keeps the cart. *)
CancelAmend ==
  /\ Moved /\ ~checkout /\ amending # None
  /\ amending' = None /\ seededFor' = None
  /\ UNCHANGED <<boxVars, cartVars, dialogVars, history>>

CartValid == InCart # {} /\ \A p \in InCart : cart[p].n > 0

OpenCheckout ==
  /\ Settled /\ ~checkout /\ CartValid
  /\ checkout' = TRUE
  /\ UNCHANGED <<boxVars, cartVars, saleVars, busy, left, orphans, history, moves>>

Confirm ==
  /\ Moved /\ checkout /\ ~busy
  /\ busy' = TRUE
  /\ UNCHANGED <<boxVars, cartVars, saleVars, checkout, left, orphans, history>>

UnderWay == left + (IF busy THEN 1 ELSE 0)

CloseCheckout ==
  /\ checkout
  /\ checkout' = FALSE /\ busy' = FALSE /\ left' = UnderWay
  /\ UNCHANGED <<boxVars, cartVars, saleVars, orphans, history, moves>>

(* The sale is refused, or its call fails: the dialog may be used again.   *)
Refused ==
  /\ busy /\ busy' = FALSE
  /\ UNCHANGED <<boxVars, cartVars, saleVars, checkout, left, orphans, history, moves>>

(* Nobody sees the refusal of a dialog that is closed. *)
RefusedLate ==
  /\ \/ left > 0 /\ left' = left - 1 /\ orphans' = orphans
     \/ orphans > 0 /\ orphans' = orphans - 1 /\ left' = left
  /\ UNCHANGED <<boxVars, cartVars, saleVars, checkout, busy, history, moves>>

SoldKeepingDialog ==
  /\ UnderWay > 0
  /\ left' = IF left > 0 THEN left - 1 ELSE 0
  /\ busy' = IF left > 0 THEN busy ELSE FALSE
  /\ checkout' = IF left > 0 THEN checkout ELSE FALSE
  /\ Emptied
  /\ amending' = None /\ seededFor' = None
  /\ UNCHANGED <<boxVars, orphans, history, moves>>

(* onDone and onSold, of the dialog that is open or of one closed before:  *)
(* the cart is emptied and whatever dialog is open closed.                 *)
Sold ==
  /\ UnderWay > 0
  /\ checkout' = FALSE /\ busy' = FALSE /\ left' = UnderWay - 1
  /\ Emptied
  /\ amending' = None /\ seededFor' = None
  /\ UNCHANGED <<boxVars, orphans, history, moves>>

(* onDone of a register that has gone reaches the page only: onSold.       *)
SoldElsewhere ==
  /\ Settled /\ orphans > 0
  /\ orphans' = orphans - 1
  /\ amending' = None /\ seededFor' = None
  /\ UNCHANGED <<boxVars, cartVars, checkout, busy, left, history, moves>>

Box ==
  \/ \E t \in Term \union {None} : Type(t)
  \/ Debounce \/ EnterOnList \/ EnterOnEmpty
  \/ \E l \in Lookup : Found(l) \/ Entered(l)

Cart ==
  \E p \in Product :
    \/ Tap(p) \/ RemoveLine(p) \/ \E d \in {-1, 1} : BumpQty(p, d)
    \/ \E n \in 0 .. MaxTyped : TypeQuantity(p, n)

Correction == (\E s \in Sale \union {amending} : Remount(s)) \/ Seed \/ CancelAmend

Dialog ==
  \/ OpenCheckout \/ Confirm \/ CloseCheckout
  \/ Refused \/ RefusedLate \/ Sold \/ SoldElsewhere

RegisterNext ==
  \/ PrimeBrowse \/ Box \/ Cart \/ Correction
  \/ Dialog

RegisterSpec == RegisterInit /\ [][RegisterNext]_registerVars

-----------------------------------------------------------------------------
(* The cart holds what the cashier meant, line by line and for the lines   *)
(* that are gone: taps, scans, their late answers, buttons, seeding and    *)
(* sales all agree.  Only "+ 1" on a quantity that was typed makes another *)
(* number of it, and a line drifts no longer than that one is in the cart. *)
InTheCart(p) == IF p \in InCart THEN cart[p].n ELSE 0

OnlyTypedQuantitiesDrift ==
  \A p \in Product : InTheCart(p) = meant[p] \/ p \in appended

(* The dialog never stands over a cart that could not be paid for, not     *)
(* even when the answer to an Enter, or to the sale of a dialog closed     *)
(* before it, comes while it is open.                                      *)
CheckoutIsPayable == checkout => CartValid

(* A scan or an Enter adds a product of the term in the box ("A scan       *)
(* resolves to a single variant row", RegisterView.jsx:258).  It adds what *)
(* is on the screen, which may be the answer to an earlier term.           *)
EnterTakesAMatch == mistaken = {}

(* A term leaves the box only when the cashier clears it or its own Enter  *)
(* used it: the answer to one scan wipes the next one, typed meanwhile.    *)
TypedScanIsKept == wiped = {}

(* The cart holds the numbers the cashier meant.                           *)
QuantitiesAsMeant ==
  \A p \in Product : InTheCart(p) = meant[p]
=============================================================================
