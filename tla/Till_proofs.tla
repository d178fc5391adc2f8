----------------------------- MODULE Till_proofs -----------------------------
(***************************************************************************)
(* The invariants of the till: the search box and the cart of its          *)
(* register, for every set of products, terms and sales, and the cash of   *)
(* its drawer, for every set of amounts, whatever the bounds.              *)
(***************************************************************************)
EXTENDS Register, Drawer, Sums_proofs, TLAPS

-----------------------------------------------------------------------------
(***************************************************************************)
(* The register.  Every step leaves the cart alone, makes it anew, adds a  *)
(* product, retypes, bumps or drops a line; the invariants of the cart are *)
(* proved once for each of these.                                          *)
(***************************************************************************)

\* A quantity one higher is a quantity, and positive if it was.
LEMMA PlusOneType ==
  ASSUME NEW q \in Quantity
  PROVE  /\ PlusOne(q) \in Quantity
         /\ PlusOne(q).n > 0
         /\ PlusOne(q).typed = q.typed
         /\ ~q.typed \/ q.n = 0 => PlusOne(q).n = q.n + 1
         /\ PlusOne(q).n >= q.n + 1
BY DEF Quantity, PlusOne

\* A cart of lines of known products.
CartTypeOK == InCart \subseteq Product /\ \A p \in InCart : cart[p] \in Quantity

MeantTypeOK == DOMAIN meant = Product /\ \A p \in Product : meant[p] \in Nat

\* The cart with one line of it set.
LEMMA WithLine ==
  ASSUME CartTypeOK, NEW p \in Product, NEW q \in Quantity, cart' = With(p, q)
  PROVE  /\ CartTypeOK'
         /\ InCart' = InCart \union {p}
         /\ cart'[p] = q
         /\ \A x \in InCart : x # p => cart'[x] = cart[x]
BY DEF CartTypeOK, With, InCart

\* The cart with one line of it dropped.
LEMMA WithoutLine ==
  ASSUME CartTypeOK, NEW p \in Product, cart' = Without(p)
  PROVE  /\ CartTypeOK'
         /\ InCart' = InCart \ {p}
         /\ \A x \in InCart : x # p => cart'[x] = cart[x]
BY DEF CartTypeOK, Without, InCart

\* A product that is added has a line with a positive quantity.
LEMMA AddedLine ==
  ASSUME CartTypeOK, MeantTypeOK, NEW p \in Product, AddProduct(p)
  PROVE  /\ CartTypeOK' /\ MeantTypeOK'
         /\ InCart' = InCart \union {p}
         /\ cart'[p].n > 0
         /\ \A x \in InCart : x # p => cart'[x] = cart[x]
         /\ meant' = [meant EXCEPT ![p] = @ + 1]
         /\ p \in InCart => cart'[p] = PlusOne(cart[p])
         /\ p \notin InCart => cart'[p] = [n |-> 1, typed |-> FALSE]
<1> DEFINE q == IF p \in InCart THEN PlusOne(cart[p]) ELSE [n |-> 1, typed |-> FALSE]
<1>1. q \in Quantity /\ q.n > 0
  <2>1. CASE p \in InCart
    BY <2>1, PlusOneType DEF CartTypeOK
  <2>2. CASE p \notin InCart
    BY <2>2 DEF Quantity
  <2> QED BY <2>1, <2>2
<1>2. cart' = With(p, q) /\ meant' = [meant EXCEPT ![p] = @ + 1]
  BY DEF AddProduct
<1>3. MeantTypeOK'
  BY <1>2 DEF MeantTypeOK
<1> HIDE DEF q
<1>4. /\ CartTypeOK' /\ InCart' = InCart \union {p} /\ cart'[p] = q
      /\ \A x \in InCart : x # p => cart'[x] = cart[x]
  BY <1>1, <1>2, WithLine
<1> QED BY <1>1, <1>2, <1>3, <1>4 DEF q

\* A bumped line is converted, and every line without a positive quantity goes.
LEMMA BumpedLines ==
  ASSUME CartTypeOK, NEW p \in InCart, NEW d \in {-1, 1}, cart' = Bumped(p, d)
  PROVE  /\ CartTypeOK'
         /\ \A x \in InCart : x \in InCart' <=>
              (IF x = p THEN cart[p].n + d ELSE cart[x].n) > 0
         /\ InCart' \subseteq InCart
         /\ p \in InCart' => cart'[p].n = cart[p].n + d
         /\ \A x \in InCart' : x # p => cart'[x] = cart[x]
<1> DEFINE now(x) == IF x = p THEN [n |-> cart[x].n + d, typed |-> FALSE] ELSE cart[x]
<1>1. cart' = [x \in {y \in InCart : now(y).n > 0} |-> now(x)]
  BY DEF Bumped
<1>2. \A x \in InCart : x \in Product /\ cart[x] \in Quantity /\ cart[x].n \in Nat
  BY DEF CartTypeOK, Quantity
<1>3. InCart' = {y \in InCart : now(y).n > 0} /\ \A x \in InCart' : cart'[x] = now(x)
  BY <1>1 DEF InCart
<1>4. \A x \in InCart : now(x).n = IF x = p THEN cart[p].n + d ELSE cart[x].n
  OBVIOUS
<1>5. \A x \in InCart' : cart'[x] \in Quantity
  <2> SUFFICES ASSUME NEW x \in InCart' PROVE cart'[x] \in Quantity
    OBVIOUS
  <2>1. CASE x = p
    <3>1. cart[x].n + d > 0 /\ cart[x].n + d \in Nat
      BY <1>2, <1>3, <2>1
    <3>2. cart'[x] = [n |-> cart[x].n + d, typed |-> FALSE]
      BY <1>3, <2>1
    <3> QED BY <3>1, <3>2 DEF Quantity
  <2>2. CASE x # p
    <3>1. cart'[x] = cart[x] /\ x \in InCart
      BY <1>3, <2>2
    <3> QED BY <1>2, <3>1
  <2> QED BY <2>1, <2>2
<1> HIDE DEF now
<1>6. CartTypeOK'
  BY <1>2, <1>3, <1>5 DEF CartTypeOK
<1> QED BY <1>3, <1>4, <1>6 DEF now

\* What a step does to the cart and to what the cashier meant by it.
Refilled ==
  /\ cart' = EmptyCart \/ \E s \in Product : cart' = [p \in {s} |-> [n |-> 1, typed |-> FALSE]]
  /\ meant' = [p \in Product |-> IF p \in DOMAIN cart' THEN 1 ELSE 0]
  /\ appended' = {}

Retyped(p, n) ==
  /\ cart' = With(p, [n |-> n, typed |-> TRUE])
  /\ meant' = [meant EXCEPT ![p] = n]
  /\ appended' = appended \ {p}

LinesBumped(p, d) ==
  /\ cart' = Bumped(p, d)
  /\ meant' = [meant EXCEPT ![p] = NotNegative(@ + d)]
  /\ appended' = appended \intersect InCart'

LineDropped(p) ==
  /\ cart' = Without(p)
  /\ meant' = [meant EXCEPT ![p] = 0]
  /\ appended' = appended \ {p}

CartStep ==
  \/ UNCHANGED <<cart, meant, appended>>
  \/ Refilled /\ (checkout /\ checkout' => cart' # EmptyCart)
  \/ \E p \in Product : AddProduct(p)
  \/ ~checkout /\ \E p \in InCart, n \in Nat : Retyped(p, n)
  \/ ~checkout /\ \E p \in InCart, d \in {-1, 1} : LinesBumped(p, d)
  \/ ~checkout /\ \E p \in InCart : LineDropped(p)

\* A cart made anew is of one line or none, as meant.
LEMMA RefilledCart ==
  ASSUME Refilled
  PROVE  /\ CartTypeOK' /\ MeantTypeOK'
         /\ \A p \in InCart' : cart'[p] = [n |-> 1, typed |-> FALSE]
         /\ \A p \in Product : meant'[p] = IF p \in InCart' THEN 1 ELSE 0
<1>1. CASE cart' = EmptyCart
  BY <1>1 DEF Refilled, EmptyCart, CartTypeOK, MeantTypeOK, InCart
<1>2. ASSUME NEW s \in Product, cart' = [p \in {s} |-> [n |-> 1, typed |-> FALSE]]
      PROVE  /\ CartTypeOK' /\ MeantTypeOK'
             /\ \A p \in InCart' : cart'[p] = [n |-> 1, typed |-> FALSE]
             /\ \A p \in Product : meant'[p] = IF p \in InCart' THEN 1 ELSE 0
  BY <1>2 DEF Refilled, CartTypeOK, MeantTypeOK, InCart, Quantity
<1> QED BY <1>1, <1>2 DEF Refilled

\* An Enter adds a product and empties the box.
LEMMA TakenFrom ==
  ASSUME NEW t, NEW rows, rows \subseteq Product, TakeFrom(t, rows)
  PROVE  /\ \E p \in Product : AddProduct(p)
         /\ mistaken' \subseteq mistaken \union {t}
         /\ wiped' \subseteq wiped \union ({search} \ {None})
         /\ search' = None /\ due' = FALSE /\ results' = {}
BY DEF TakeFrom

\* Every step of the register is one of the six kinds.
LEMMA CartSteps ==
  ASSUME RegisterTypeOK, [RegisterNext]_registerVars
  PROVE  CartStep
<1> USE RegisterAssumption
<1>1. CartTypeOK
  BY DEF RegisterTypeOK, CartTypeOK
<1>2. CASE UNCHANGED registerVars
  BY <1>2 DEF registerVars, cartVars, CartStep
<1>3. CASE PrimeBrowse
  BY <1>3 DEF PrimeBrowse, cartVars, CartStep
<1>4. CASE Box
  <2>1. ASSUME NEW t \in Term \union {None}, Type(t)
        PROVE  CartStep
    BY <2>1 DEF Type, cartVars, CartStep
  <2>2. CASE Debounce \/ EnterOnEmpty
    BY <2>2 DEF Debounce, EnterOnEmpty, cartVars, CartStep
  <2>3. CASE EnterOnList
    BY <2>3, TakenFrom DEF EnterOnList, RegisterTypeOK, CartStep
  <2>4. ASSUME NEW l \in Lookup, Found(l)
        PROVE  CartStep
    BY <2>4 DEF Found, cartVars, CartStep
  <2>5. ASSUME NEW l \in Lookup, Entered(l)
        PROVE  CartStep
    <3>1. Matches[l.term] \subseteq Product
      BY DEF Lookup
    <3>2. CASE TakeFrom(l.term, Matches[l.term])
      BY <3>1, <3>2, TakenFrom DEF CartStep
    <3> QED BY <2>5, <3>2 DEF Entered, cartVars, CartStep
  <2> QED BY <1>4, <2>1, <2>2, <2>3, <2>4, <2>5 DEF Box
<1>5. CASE Cart
  <2> SUFFICES ASSUME NEW p \in Product,
                      \/ Tap(p) \/ RemoveLine(p) \/ \E d \in {-1, 1} : BumpQty(p, d)
                      \/ \E n \in 0 .. MaxTyped : TypeQuantity(p, n)
               PROVE  CartStep
    BY <1>5 DEF Cart
  <2>1. CASE Tap(p)
    BY <2>1 DEF Tap, CartStep
  <2>2. CASE RemoveLine(p)
    BY <2>2 DEF RemoveLine, LineDropped, CartStep
  <2>3. ASSUME NEW d \in {-1, 1}, BumpQty(p, d)
        PROVE  CartStep
    <3>1. ~checkout /\ p \in InCart /\ LinesBumped(p, d)
      BY <2>3 DEF BumpQty, LinesBumped, InCart
    <3> QED BY <3>1 DEF CartStep
  <2>4. ASSUME NEW n \in 0 .. MaxTyped, TypeQuantity(p, n)
        PROVE  CartStep
    <3>1. ~checkout /\ p \in InCart /\ Retyped(p, n) /\ n \in Nat
      BY <2>4 DEF TypeQuantity, Retyped
    <3> QED BY <3>1 DEF CartStep
  <2> QED BY <2>1, <2>2, <2>3, <2>4
<1>6. CASE Correction
  <2>1. ASSUME NEW s \in Sale \union {amending}, Remount(s)
        PROVE  Refilled /\ ~checkout
    BY <2>1 DEF Remount, Emptied, Refilled, EmptyCart
  <2>2. CASE Seed
    <3>1. LinesOf[amending] \in Product
      BY <2>2 DEF Seed, RegisterTypeOK
    <3>2. Refilled
      BY <2>2, <3>1 DEF Seed, Refilled
    <3>3. cart' # EmptyCart
      <4>1. DOMAIN cart' = {LinesOf[amending]} /\ DOMAIN EmptyCart = {}
        BY <2>2 DEF Seed, EmptyCart
      <4> QED BY <4>1
    <3> QED BY <3>2, <3>3 DEF CartStep
  <2>3. CASE CancelAmend
    BY <2>3 DEF CancelAmend, cartVars, CartStep
  <2> QED BY <1>6, <2>1, <2>2, <2>3 DEF Correction, CartStep
<1>7. CASE OpenCheckout \/ Confirm \/ CloseCheckout \/ Refused \/ RefusedLate \/ SoldElsewhere
  BY <1>7 DEF OpenCheckout, Confirm, CloseCheckout, Refused, RefusedLate, SoldElsewhere,
     cartVars, CartStep
<1>8. CASE Sold
  <2>1. Refilled /\ ~checkout'
    BY <1>8 DEF Sold, Emptied, Refilled, EmptyCart
  <2> QED BY <2>1 DEF CartStep
<1> QED BY <1>2, <1>3, <1>4, <1>5, <1>6, <1>7, <1>8 DEF RegisterNext, Dialog

\* Each kind keeps the cart typed.
LEMMA CartStepType ==
  ASSUME CartTypeOK, MeantTypeOK, CartStep
  PROVE  CartTypeOK' /\ MeantTypeOK'
<1>1. CASE UNCHANGED <<cart, meant>>
  BY <1>1 DEF CartTypeOK, MeantTypeOK, InCart
<1>2. CASE Refilled
  BY <1>2, RefilledCart
<1>3. ASSUME NEW p \in Product, AddProduct(p)
      PROVE  CartTypeOK' /\ MeantTypeOK'
  BY <1>3, AddedLine
<1>4. ASSUME NEW p \in InCart, NEW n \in Nat, Retyped(p, n)
      PROVE  CartTypeOK' /\ MeantTypeOK'
  <2>1. MeantTypeOK'
    BY <1>4 DEF Retyped, MeantTypeOK
  <2>2. p \in Product /\ [n |-> n, typed |-> TRUE] \in Quantity
    BY DEF CartTypeOK, Quantity
  <2> QED BY <1>4, <2>1, <2>2, WithLine DEF Retyped
<1>5. ASSUME NEW p \in InCart, NEW d \in {-1, 1}, LinesBumped(p, d)
      PROVE  CartTypeOK' /\ MeantTypeOK'
  <2>1. \A m \in Nat : NotNegative(m + d) \in Nat
    BY DEF NotNegative
  <2>2. MeantTypeOK'
    BY <1>5, <2>1 DEF LinesBumped, MeantTypeOK
  <2> QED BY <1>5, <2>2, BumpedLines DEF LinesBumped
<1>6. ASSUME NEW p \in InCart, LineDropped(p)
      PROVE  CartTypeOK' /\ MeantTypeOK'
  <2>1. MeantTypeOK' /\ p \in Product
    BY <1>6 DEF LineDropped, MeantTypeOK, CartTypeOK
  <2> QED BY <1>6, <2>1, WithoutLine DEF LineDropped
<1> QED BY <1>1, <1>2, <1>3, <1>4, <1>5, <1>6 DEF CartStep

\* The part of the type invariant that is not the cart.
BoxTypeOK ==
  /\ search \in Term \union {None} /\ results \subseteq Product
  /\ due \in BOOLEAN /\ browsePool \subseteq Product /\ lookups \in [Lookup -> Nat]
  /\ amending \in Sale \union {None} /\ seededFor \in Sale \union {None}
  /\ checkout \in BOOLEAN /\ busy \in BOOLEAN /\ left \in Nat /\ orphans \in Nat
  /\ mistaken \subseteq Term /\ wiped \subseteq Term
  /\ moves \in 0 .. MaxMoves

\* The types of the register, by the box, the cart and what was meant.
LEMMA TypeParts ==
  RegisterTypeOK <=> BoxTypeOK /\ CartTypeOK /\ MeantTypeOK /\ appended \subseteq Product
BY DEF RegisterTypeOK, BoxTypeOK, CartTypeOK, MeantTypeOK

\* A product taken for a known term keeps the box typed.
LEMMA TakenType ==
  ASSUME BoxTypeOK, NEW t \in Term, NEW rows, rows \subseteq Product, TakeFrom(t, rows)
  PROVE  /\ search' = None /\ results' = {} /\ due' = FALSE
         /\ mistaken' \subseteq Term /\ wiped' \subseteq Term
BY TakenFrom DEF BoxTypeOK

\* One more or one fewer search on its way.
LEMMA AskedType ==
  ASSUME BoxTypeOK, NEW t \in Term, NEW e \in BOOLEAN, Ask(t, e)
  PROVE  lookups' \in [Lookup -> Nat]
<1> DEFINE l == [term |-> t, entered |-> e]
<1>1. l \in Lookup
  BY DEF Lookup
<1>2. lookups \in [Lookup -> Nat] /\ lookups' = [lookups EXCEPT ![l] = @ + 1]
  BY DEF Ask, BoxTypeOK
<1> HIDE DEF l
<1> QED BY <1>1, <1>2

LEMMA AnsweredType ==
  ASSUME BoxTypeOK, NEW l \in Lookup, Answer(l)
  PROVE  lookups' \in [Lookup -> Nat] /\ l.term \in Term /\ Matches[l.term] \subseteq Product
<1>1. l.term \in Term /\ Matches[l.term] \subseteq Product
  BY RegisterAssumption DEF Lookup
<1>2. /\ lookups \in [Lookup -> Nat] /\ lookups[l] > 0
      /\ lookups' = [lookups EXCEPT ![l] = @ - 1]
  BY DEF Answer, BoxTypeOK
<1>3. lookups' \in [Lookup -> Nat]
  BY <1>2
<1> QED BY <1>1, <1>3

\* What the cashier does is counted, up to the bound.
LEMMA MovedType ==
  ASSUME moves \in 0 .. MaxMoves, Moved
  PROVE  moves' \in 0 .. MaxMoves
BY RegisterAssumption DEF Moved

\* Every step keeps the box typed.
LEMMA BoxType ==
  ASSUME BoxTypeOK, due => search # None, [RegisterNext]_registerVars
  PROVE  BoxTypeOK' /\ (due => search # None)'
<1> DEFINE Good == BoxTypeOK' /\ (due => search # None)'
<1> USE RegisterAssumption
<1>1. CASE UNCHANGED registerVars
  BY <1>1 DEF registerVars, boxVars, saleVars, dialogVars, history, BoxTypeOK
<1>2. CASE PrimeBrowse
  BY <1>2 DEF PrimeBrowse, saleVars, dialogVars, history, BoxTypeOK
<1>3. CASE Box
  <2>1. ASSUME NEW t \in Term \union {None}, Type(t)
        PROVE  Good
    <3>1. moves' \in 0 .. MaxMoves
      BY <2>1, MovedType DEF Type, BoxTypeOK
    <3>2. /\ search' \in Term \union {None} /\ results' \subseteq Product
          /\ due' \in BOOLEAN /\ (due' => search' # None)
      BY <2>1 DEF Type, BoxTypeOK
    <3> QED BY <2>1, <3>1, <3>2 DEF Type, saleVars, dialogVars, history, BoxTypeOK
  <2>2. CASE Debounce
    <3>1. search \in Term
      BY <2>2 DEF Debounce, BoxTypeOK
    <3>2. lookups' \in [Lookup -> Nat]
      BY <2>2, <3>1, AskedType DEF Debounce
    <3> QED BY <2>2, <3>2 DEF Debounce, saleVars, dialogVars, history, BoxTypeOK
  <2>3. CASE EnterOnList
    <3>1. search \in Term /\ results \subseteq Product
      BY <2>3 DEF EnterOnList, BoxTypeOK
    <3>2. /\ search' = None /\ results' = {} /\ due' = FALSE
          /\ mistaken' \subseteq Term /\ wiped' \subseteq Term
      BY <2>3, <3>1, TakenType DEF EnterOnList
    <3>3. moves' \in 0 .. MaxMoves
      BY <2>3, MovedType DEF EnterOnList, BoxTypeOK
    <3> QED BY <2>3, <3>2, <3>3 DEF EnterOnList, saleVars, dialogVars, BoxTypeOK
  <2>4. CASE EnterOnEmpty
    <3>1. search \in Term
      BY <2>4 DEF EnterOnEmpty, BoxTypeOK
    <3>2. lookups' \in [Lookup -> Nat]
      BY <2>4, <3>1, AskedType DEF EnterOnEmpty
    <3> QED BY <2>4, <3>2 DEF EnterOnEmpty, Moved, saleVars, dialogVars, history, BoxTypeOK
  <2>5. ASSUME NEW l \in Lookup, Found(l)
        PROVE  Good
    <3>1. lookups' \in [Lookup -> Nat] /\ results' \subseteq Product
      BY <2>5, AnsweredType DEF Found
    <3> QED BY <2>5, <3>1 DEF Found, saleVars, dialogVars, history, BoxTypeOK
  <2>6. ASSUME NEW l \in Lookup, Entered(l)
        PROVE  Good
    <3>1. /\ lookups' \in [Lookup -> Nat]
          /\ Matches[l.term] \subseteq Product /\ l.term \in Term
      BY <2>6, AnsweredType DEF Entered
    <3>2. CASE TakeFrom(l.term, Matches[l.term])
      <4>1. /\ search' = None /\ results' = {} /\ due' = FALSE
            /\ mistaken' \subseteq Term /\ wiped' \subseteq Term
        BY <3>1, <3>2, TakenType
      <4> QED BY <2>6, <3>1, <4>1 DEF Entered, saleVars, dialogVars, BoxTypeOK
    <3>3. CASE UNCHANGED <<search, results, due, cartVars, history>>
      BY <2>6, <3>1, <3>3 DEF Entered, saleVars, dialogVars, history, BoxTypeOK
    <3> QED BY <2>6, <3>2, <3>3 DEF Entered
  <2> QED BY <1>3, <2>1, <2>2, <2>3, <2>4, <2>5, <2>6 DEF Box
<1>4. CASE Cart
  <2>1. UNCHANGED <<boxVars, saleVars, dialogVars, history>> /\ Moved
    BY <1>4 DEF Cart, Tap, TypeQuantity, BumpQty, RemoveLine
  <2>2. moves' \in 0 .. MaxMoves
    BY <2>1, MovedType DEF BoxTypeOK
  <2> QED BY <2>1, <2>2 DEF boxVars, saleVars, dialogVars, history, BoxTypeOK
<1>5. CASE Correction
  <2>1. ASSUME NEW s \in Sale \union {amending}, Remount(s)
        PROVE  Good
    <3>1. moves' \in 0 .. MaxMoves
      BY <2>1, MovedType DEF Remount, BoxTypeOK
    <3>2. lookups' \in [Lookup -> Nat] /\ orphans' \in Nat /\ left' \in Nat
      BY <2>1 DEF Remount, BoxTypeOK
    <3> QED BY <2>1, <3>1, <3>2 DEF Remount, history, BoxTypeOK
  <2>2. CASE Seed
    BY <2>2 DEF Seed, boxVars, dialogVars, history, BoxTypeOK
  <2>3. CASE CancelAmend
    <3>1. moves' \in 0 .. MaxMoves
      BY <2>3, MovedType DEF CancelAmend, BoxTypeOK
    <3> QED BY <2>3, <3>1 DEF CancelAmend, boxVars, dialogVars, history, BoxTypeOK
  <2> QED BY <1>5, <2>1, <2>2, <2>3 DEF Correction
<1>6. CASE Dialog
  <2>1. UNCHANGED <<boxVars, history>>
    BY <1>6 DEF Dialog, OpenCheckout, Confirm, CloseCheckout, Refused, RefusedLate, Sold,
       SoldElsewhere
  <2>2. amending' \in {amending, None} /\ seededFor' \in {seededFor, None}
    BY <1>6 DEF Dialog, OpenCheckout, Confirm, CloseCheckout, Refused, RefusedLate, Sold,
       SoldElsewhere, saleVars
  <2>3. UnderWay \in Nat
    BY DEF UnderWay, BoxTypeOK
  <2>4. /\ checkout' \in BOOLEAN /\ busy' \in BOOLEAN
        /\ left' \in Nat /\ orphans' \in Nat
    <3>1. /\ checkout' = checkout \/ checkout' = TRUE \/ checkout' = FALSE
          /\ busy' = busy \/ busy' = TRUE \/ busy' = FALSE
      BY <1>6 DEF Dialog, OpenCheckout, Confirm, CloseCheckout, Refused, RefusedLate, Sold,
         SoldElsewhere
    <3>2. \/ left' = left \/ left' = UnderWay
          \/ UnderWay > 0 /\ left' = UnderWay - 1
          \/ left > 0 /\ left' = left - 1
      BY <1>6 DEF Dialog, OpenCheckout, Confirm, CloseCheckout, Refused, RefusedLate, Sold,
         SoldElsewhere
    <3>3. orphans' = orphans \/ (orphans > 0 /\ orphans' = orphans - 1)
      BY <1>6 DEF Dialog, OpenCheckout, Confirm, CloseCheckout, Refused, RefusedLate, Sold,
         SoldElsewhere
    <3>4. checkout \in BOOLEAN /\ busy \in BOOLEAN
      BY DEF BoxTypeOK
    <3>5. left \in Nat /\ orphans \in Nat
      BY DEF BoxTypeOK
    <3>6. left' \in Nat /\ orphans' \in Nat
      BY <2>3, <3>2, <3>3, <3>5
    <3>7. checkout' \in BOOLEAN /\ busy' \in BOOLEAN
      BY <3>1, <3>4
    <3> QED BY <3>6, <3>7
  <2>5. moves' \in 0 .. MaxMoves
    BY <1>6, MovedType DEF Dialog, OpenCheckout, Confirm, CloseCheckout, Refused,
       RefusedLate, Sold, SoldElsewhere, BoxTypeOK
  <2> QED BY <2>1, <2>2, <2>4, <2>5 DEF boxVars, history, BoxTypeOK
<1> QED BY <1>1, <1>2, <1>3, <1>4, <1>5, <1>6 DEF RegisterNext

\* Only products are appended to.
LEMMA AppendedType ==
  ASSUME appended \subseteq Product, CartStep
  PROVE  appended' \subseteq Product
BY DEF CartStep, Refilled, AddProduct, Retyped, LinesBumped, LineDropped

\* The debounce timer only runs over a term, so what is asked is a term.
TypedInv == RegisterTypeOK /\ (due => search # None)

\* Every variable of the register keeps its type, however answers overtake
\* one another (RegisterView.jsx).
THEOREM RegisterTypeCorrect == RegisterSpec => []RegisterTypeOK
<1>1. RegisterInit => TypedInv
  <2> SUFFICES ASSUME RegisterInit
               PROVE  TypedInv
    OBVIOUS
  <2>1. BoxTypeOK /\ (due => search # None)
    <3>1. moves \in 0 .. MaxMoves
      BY RegisterAssumption DEF RegisterInit
    <3>2. due = FALSE /\ checkout = FALSE /\ busy = FALSE
      BY DEF RegisterInit
    <3>3. lookups \in [Lookup -> Nat]
      BY DEF RegisterInit
    <3> QED BY <3>1, <3>2, <3>3 DEF RegisterInit, BoxTypeOK
  <2>2. CartTypeOK /\ MeantTypeOK /\ appended \subseteq Product
    BY DEF RegisterInit, CartTypeOK, MeantTypeOK, EmptyCart, InCart
  <2> QED BY <2>1, <2>2, TypeParts DEF TypedInv
<1>2. TypedInv /\ [RegisterNext]_registerVars => TypedInv'
  <2> SUFFICES ASSUME TypedInv, [RegisterNext]_registerVars
               PROVE  TypedInv'
    OBVIOUS
  <2>1. /\ RegisterTypeOK /\ BoxTypeOK /\ CartTypeOK /\ MeantTypeOK
        /\ appended \subseteq Product /\ (due => search # None)
    BY TypeParts DEF TypedInv
  <2>2. CartTypeOK' /\ MeantTypeOK' /\ appended' \subseteq Product
    BY <2>1, CartSteps, CartStepType, AppendedType
  <2>3. BoxTypeOK' /\ (due => search # None)'
    BY <2>1, BoxType
  <2>4. RegisterTypeOK'
    BY <2>2, <2>3 DEF RegisterTypeOK, BoxTypeOK, CartTypeOK, MeantTypeOK
  <2> QED BY <2>3, <2>4 DEF TypedInv
<1> QED BY <1>1, <1>2, PTL DEF RegisterSpec, TypedInv

\* A quantity that drifted is in the cart, and is more than what was meant.
AsMeantInv ==
  /\ OnlyTypedQuantitiesDrift
  /\ appended \subseteq InCart
  /\ \A p \in appended : meant[p] <= cart[p].n

\* Whatever is done to the cart is meant, or appends to what was typed.
LEMMA AsMeantStep ==
  ASSUME CartTypeOK, MeantTypeOK, AsMeantInv, CartStep
  PROVE  AsMeantInv'
<1>1. /\ \A p \in Product : p \notin appended => InTheCart(p) = meant[p]
      /\ appended \subseteq InCart /\ InCart \subseteq Product
      /\ \A p \in appended : meant[p] <= cart[p].n
      /\ \A p \in Product : meant[p] \in Nat
      /\ \A p \in InCart : cart[p] \in Quantity /\ cart[p].n \in Nat
  BY DEF AsMeantInv, OnlyTypedQuantitiesDrift, CartTypeOK, MeantTypeOK, Quantity
<1>2. SUFFICES ASSUME CartStep,
                      ~UNCHANGED <<cart, meant, appended>>
               PROVE  /\ appended' \subseteq InCart'
                      /\ \A p \in appended' : meant'[p] <= cart'[p].n
                      /\ \A p \in Product : p \notin appended' => InTheCart(p)' = meant'[p]
  BY DEF AsMeantInv, OnlyTypedQuantitiesDrift, InTheCart, InCart
<1>3. CASE Refilled
  <2>1. /\ appended' = {}
        /\ \A p \in InCart' : cart'[p] = [n |-> 1, typed |-> FALSE]
        /\ \A p \in Product : meant'[p] = IF p \in InCart' THEN 1 ELSE 0
    BY <1>3, RefilledCart DEF Refilled
  <2>2. \A p \in Product : InTheCart(p)' = IF p \in InCart' THEN cart'[p].n ELSE 0
    BY DEF InTheCart, InCart
  <2> QED BY <2>1, <2>2
<1>4. ASSUME NEW p \in Product, AddProduct(p)
      PROVE  /\ appended' \subseteq InCart'
             /\ \A x \in appended' : meant'[x] <= cart'[x].n
             /\ \A x \in Product : x \notin appended' => InTheCart(x)' = meant'[x]
  <2>1. /\ InCart' = InCart \union {p}
        /\ \A x \in InCart : x # p => cart'[x] = cart[x]
        /\ p \in InCart => cart'[p] = PlusOne(cart[p])
        /\ p \notin InCart => cart'[p] = [n |-> 1, typed |-> FALSE]
    BY <1>4, AddedLine
  <2>2. meant'[p] = meant[p] + 1 /\ \A x \in Product : x # p => meant'[x] = meant[x]
    BY <1>4, AddedLine DEF MeantTypeOK
  <2>3. appended' = IF p \in InCart /\ cart[p].typed /\ cart[p].n # 0
                    THEN appended \union {p} ELSE appended
    BY <1>4 DEF AddProduct
  <2>4. \A x \in Product : x # p => InTheCart(x)' = InTheCart(x)
    BY <2>1 DEF InTheCart
  <2>5. CASE p \notin InCart
    <3>1. meant[p] = 0 /\ InTheCart(p)' = 1
      BY <1>1, <2>1, <2>5 DEF InTheCart
    <3> QED BY <1>1, <2>1, <2>2, <2>3, <2>4, <2>5, <3>1
  <2>6. CASE p \in InCart
    <3>1. /\ cart'[p].n >= cart[p].n + 1 /\ cart'[p].n \in Nat
          /\ ~cart[p].typed \/ cart[p].n = 0 => cart'[p].n = cart[p].n + 1
      BY <1>1, <2>1, <2>6, PlusOneType DEF Quantity
    <3>2. InTheCart(p) = cart[p].n /\ InTheCart(p)' = cart'[p].n
      BY <2>1, <2>6 DEF InTheCart
    <3>3. meant[p] <= cart[p].n
      BY <1>1, <2>6, <3>2
    <3>4. meant'[p] <= cart'[p].n
      BY <1>1, <2>2, <2>6, <3>1, <3>3
    <3>5. p \notin appended' => InTheCart(p)' = meant'[p]
      BY <1>1, <2>2, <2>3, <2>6, <3>1, <3>2
    <3> QED BY <1>1, <2>1, <2>2, <2>3, <2>4, <2>6, <3>4, <3>5
  <2> QED BY <2>5, <2>6
<1>5. ASSUME NEW p \in InCart, NEW n \in Nat, Retyped(p, n)
      PROVE  /\ appended' \subseteq InCart'
             /\ \A x \in appended' : meant'[x] <= cart'[x].n
             /\ \A x \in Product : x \notin appended' => InTheCart(x)' = meant'[x]
  <2>1. [n |-> n, typed |-> TRUE] \in Quantity
    BY DEF Quantity
  <2>2. /\ InCart' = InCart /\ cart'[p].n = n
        /\ \A x \in InCart : x # p => cart'[x] = cart[x]
    <3>1. p \in Product /\ CartTypeOK /\ cart' = With(p, [n |-> n, typed |-> TRUE])
      BY <1>1, <1>5 DEF Retyped
    <3>2. /\ InCart' = InCart \union {p} /\ cart'[p] = [n |-> n, typed |-> TRUE]
          /\ \A x \in InCart : x # p => cart'[x] = cart[x]
      BY <2>1, <3>1, WithLine
    <3> QED BY <3>2
  <2>3. meant'[p] = n /\ \A x \in Product : x # p => meant'[x] = meant[x]
    BY <1>1, <1>5 DEF Retyped, MeantTypeOK
  <2>4. appended' = appended \ {p}
    BY <1>5 DEF Retyped
  <2> QED BY <1>1, <2>2, <2>3, <2>4 DEF InTheCart
<1>6. ASSUME NEW p \in InCart, NEW d \in {-1, 1}, LinesBumped(p, d)
      PROVE  /\ appended' \subseteq InCart'
             /\ \A x \in appended' : meant'[x] <= cart'[x].n
             /\ \A x \in Product : x \notin appended' => InTheCart(x)' = meant'[x]
  <2>1. /\ \A x \in InCart : x \in InCart' <=>
              (IF x = p THEN cart[p].n + d ELSE cart[x].n) > 0
        /\ InCart' \subseteq InCart
        /\ p \in InCart' => cart'[p].n = cart[p].n + d
        /\ \A x \in InCart' : x # p => cart'[x] = cart[x]
    BY <1>6, BumpedLines DEF LinesBumped
  <2>2. /\ meant'[p] = NotNegative(meant[p] + d)
        /\ \A x \in Product : x # p => meant'[x] = meant[x]
        /\ appended' = appended \intersect InCart'
    BY <1>1, <1>6 DEF LinesBumped, MeantTypeOK
  <2>3. meant[p] <= cart[p].n /\ (p \notin appended => meant[p] = cart[p].n)
    BY <1>1 DEF InTheCart
  <2>4. p \in InCart' => meant'[p] <= cart'[p].n
    BY <1>1, <2>1, <2>2, <2>3 DEF NotNegative
  <2>5. p \notin appended' => InTheCart(p)' = meant'[p]
    BY <1>1, <2>1, <2>2, <2>3 DEF NotNegative, InTheCart
  <2>6. ASSUME NEW x \in Product, x # p, x \notin appended'
        PROVE  InTheCart(x)' = meant'[x]
    <3>1. CASE x \in InCart'
      BY <1>1, <2>1, <2>2, <2>6, <3>1 DEF InTheCart
    <3>2. CASE x \in InCart /\ x \notin InCart'
      <4>1. cart[x].n = 0 /\ meant[x] <= cart[x].n
        BY <1>1, <2>1, <2>6, <3>2 DEF InTheCart
      <4> QED BY <1>1, <2>2, <2>6, <3>2, <4>1 DEF InTheCart
    <3>3. CASE x \notin InCart
      BY <1>1, <2>1, <2>2, <2>6, <3>3 DEF InTheCart
    <3> QED BY <3>1, <3>2, <3>3
  <2> QED BY <1>1, <2>1, <2>2, <2>4, <2>5, <2>6
<1>7. ASSUME NEW p \in InCart, LineDropped(p)
      PROVE  /\ appended' \subseteq InCart'
             /\ \A x \in appended' : meant'[x] <= cart'[x].n
             /\ \A x \in Product : x \notin appended' => InTheCart(x)' = meant'[x]
  <2>1. InCart' = InCart \ {p} /\ \A x \in InCart : x # p => cart'[x] = cart[x]
    BY <1>1, <1>7, WithoutLine DEF LineDropped
  <2>2. /\ meant'[p] = 0 /\ \A x \in Product : x # p => meant'[x] = meant[x]
        /\ appended' = appended \ {p}
    BY <1>1, <1>7 DEF LineDropped, MeantTypeOK
  <2> QED BY <1>1, <2>1, <2>2 DEF InTheCart
<1> QED BY <1>2, <1>3, <1>4, <1>5, <1>6, <1>7 DEF CartStep

\* Only "+ 1" on a quantity that was typed makes another number of it than the
\* cashier meant; taps, scans and their late answers, buttons, which also drop
\* the lines of other products, seeding and sales all agree, and a line that is
\* gone was meant to be (RegisterView.jsx, addProduct and bumpQty).
THEOREM QuantitiesCorrect == RegisterSpec => []OnlyTypedQuantitiesDrift
<1>1. RegisterInit => AsMeantInv
  BY DEF RegisterInit, AsMeantInv, OnlyTypedQuantitiesDrift, InTheCart, EmptyCart, InCart
<1>2. RegisterTypeOK /\ AsMeantInv /\ [RegisterNext]_registerVars => AsMeantInv'
  BY TypeParts, CartSteps, AsMeantStep
<1> QED BY <1>1, <1>2, RegisterTypeCorrect, PTL DEF RegisterSpec, AsMeantInv

\* What happens to the cart under the open dialog leaves it payable.
LEMMA PayableStep ==
  ASSUME CartTypeOK, MeantTypeOK, CartValid, CartStep, checkout, checkout'
  PROVE  CartValid'
<1>1. CASE UNCHANGED <<cart, meant>>
  BY <1>1 DEF CartValid, InCart
<1>2. ASSUME NEW s \in Product, cart' = [p \in {s} |-> [n |-> 1, typed |-> FALSE]]
      PROVE  CartValid'
  BY <1>2 DEF CartValid, InCart
<1>3. ASSUME NEW p \in Product, AddProduct(p)
      PROVE  CartValid'
  BY <1>3, AddedLine DEF CartValid
<1> QED BY <1>1, <1>2, <1>3 DEF CartStep, Refilled

\* The dialog never stands over a cart that could not be paid for, not even
\* when the answer to an Enter, or to the sale of a dialog closed before it,
\* comes while it is open (RegisterView.jsx, the checkout button and onDone).
THEOREM CheckoutIsPayableCorrect == RegisterSpec => []CheckoutIsPayable
<1>1. RegisterInit => CheckoutIsPayable
  BY DEF RegisterInit, CheckoutIsPayable
<1>2. ASSUME RegisterTypeOK, CheckoutIsPayable, [RegisterNext]_registerVars
      PROVE  CheckoutIsPayable'
  <2>1. CASE checkout
    <3>1. CartTypeOK /\ MeantTypeOK /\ CartStep /\ CartValid
      BY <1>2, <2>1, TypeParts, CartSteps DEF CheckoutIsPayable
    <3> QED BY <2>1, <3>1, PayableStep DEF CheckoutIsPayable
  <2>2. CASE ~checkout /\ checkout'
    <3>1. CartValid /\ cart' = cart
      BY <1>2, <2>2
         DEF RegisterNext, registerVars, cartVars, dialogVars, PrimeBrowse,
             Box, Type, Debounce, EnterOnList, EnterOnEmpty, Found, Entered,
             Cart, Tap, TypeQuantity, BumpQty, RemoveLine,
             Correction, Remount, Seed, CancelAmend, Dialog, OpenCheckout, Confirm,
             CloseCheckout, Refused, RefusedLate, Sold, SoldElsewhere
    <3> QED BY <3>1 DEF CheckoutIsPayable, CartValid, InCart
  <2> QED BY <2>1, <2>2 DEF CheckoutIsPayable
<1> QED BY <1>1, <1>2, RegisterTypeCorrect, PTL DEF RegisterSpec

-----------------------------------------------------------------------------
(***************************************************************************)
(* The drawer.  That an untainted open session balances is not inductive:  *)
(* it needs that a sale taken back is marked so, that a sale never         *)
(* corrected stands in the till at its total, and that of two open         *)
(* sessions both are tainted.                                              *)
(***************************************************************************)

\* The rows a total is of, the others as zero.
Masked(c, S) == [s \in DOMAIN c |-> IF s \in S THEN c[s] ELSE 0]

\* The rows that a total is over are integers.
LEMMA MaskedType ==
  ASSUME NEW c \in Seq(Int), NEW S
  PROVE  /\ Masked(c, S) \in Seq(Int) /\ Len(Masked(c, S)) = Len(c)
         /\ \A s \in 1 .. Len(c) : Masked(c, S)[s] = IF s \in S THEN c[s] ELSE 0
         /\ Total(c, S) = SeqSum(Masked(c, S))
         /\ Total(c, S) \in Int
<1>1. /\ Masked(c, S) \in Seq(Int) /\ Len(Masked(c, S)) = Len(c)
      /\ \A s \in 1 .. Len(c) : Masked(c, S)[s] = IF s \in S THEN c[s] ELSE 0
  BY DEF Masked
<1>2. Total(c, S) = SeqSum(Masked(c, S))
  BY DEF Total, Masked
<1> QED BY <1>1, <1>2, SumType

\* A total over a column that got one more row.
LEMMA TotalAppended ==
  ASSUME NEW c \in Seq(Int), NEW d \in Seq(Int), NEW S, NEW T, Len(d) = Len(c) + 1,
         \A s \in 1 .. Len(c) : (s \in S <=> s \in T) /\ d[s] = c[s]
  PROVE  Total(d, T) = Total(c, S) + (IF Len(d) \in T THEN d[Len(d)] ELSE 0)
<1> DEFINE x == IF Len(d) \in T THEN d[Len(d)] ELSE 0
<1>1. Len(d) \in 1 .. Len(d) /\ x \in Int /\ Len(c) \in Nat /\ Len(d) \in Nat
  OBVIOUS
<1>2. /\ Len(Masked(d, T)) = Len(c) + 1 /\ Masked(d, T) \in Seq(Int)
      /\ \A s \in 1 .. Len(d) : Masked(d, T)[s] = IF s \in T THEN d[s] ELSE 0
  BY MaskedType
<1>3. /\ Len(Masked(c, S)) = Len(c) /\ Masked(c, S) \in Seq(Int)
      /\ \A s \in 1 .. Len(c) : Masked(c, S)[s] = IF s \in S THEN c[s] ELSE 0
  BY MaskedType
<1>4. Masked(d, T) = Append(Masked(c, S), x)
  <2>1. Len(Append(Masked(c, S), x)) = Len(c) + 1 /\ Append(Masked(c, S), x) \in Seq(Int)
    BY <1>1, <1>3
  <2>2. ASSUME NEW s \in 1 .. Len(c) + 1
        PROVE  Masked(d, T)[s] = Append(Masked(c, S), x)[s]
    <3>1. CASE s = Len(c) + 1
      BY <1>1, <1>2, <1>3, <3>1
    <3>2. CASE s # Len(c) + 1
      <4>1. s \in 1 .. Len(c) /\ s \in 1 .. Len(d)
        BY <3>2
      <4>2. Append(Masked(c, S), x)[s] = Masked(c, S)[s]
        BY <1>1, <1>3, <4>1
      <4> QED BY <1>2, <1>3, <4>1, <4>2
    <3> QED BY <3>1, <3>2
  <2> HIDE DEF x
  <2>3. DOMAIN Masked(d, T) = 1 .. Len(c) + 1 /\ DOMAIN Append(Masked(c, S), x) = 1 .. Len(c) + 1
    BY <1>1, <1>2, <2>1
  <2>4. Append(Masked(c, S), x) = [s \in 1 .. Len(c) + 1 |-> Append(Masked(c, S), x)[s]]
    <3> DEFINE e == Append(Masked(c, S), x)
    <3>1. e \in Seq(Int) /\ DOMAIN e = 1 .. Len(c) + 1
      BY <2>1, <2>3
    <3> HIDE DEF e
    <3>2. e = [s \in 1 .. Len(c) + 1 |-> e[s]]
      BY <3>1
    <3> QED BY <3>2 DEF e
  <2>5. Masked(d, T) = [s \in 1 .. Len(c) + 1 |-> Masked(d, T)[s]]
    BY <2>3 DEF Masked
  <2> QED BY <2>2, <2>4, <2>5
<1> HIDE DEF x
<1>5. SeqSum(Masked(d, T)) = SeqSum(Masked(c, S)) + x
  BY <1>1, <1>3, <1>4, SumAppend
<1> QED BY <1>5, MaskedType DEF x

\* A total over a column one row of which changed, or joined or left.
LEMMA TotalChanged ==
  ASSUME NEW c \in Seq(Int), NEW d \in Seq(Int), NEW S, NEW T, Len(d) = Len(c),
         NEW k \in 1 .. Len(c),
         \A s \in 1 .. Len(c) : s # k => (s \in S <=> s \in T) /\ d[s] = c[s]
  PROVE  Total(d, T) = Total(c, S) - (IF k \in S THEN c[k] ELSE 0)
                                   + (IF k \in T THEN d[k] ELSE 0)
<1>1. /\ Len(Masked(d, T)) = Len(c) /\ Masked(d, T) \in Seq(Int)
      /\ \A s \in 1 .. Len(c) : Masked(d, T)[s] = IF s \in T THEN d[s] ELSE 0
  BY MaskedType
<1>2. /\ Len(Masked(c, S)) = Len(c) /\ Masked(c, S) \in Seq(Int)
      /\ \A s \in 1 .. Len(c) : Masked(c, S)[s] = IF s \in S THEN c[s] ELSE 0
  BY MaskedType
<1>3. \A s \in 1 .. Len(c) : s # k => Masked(d, T)[s] = Masked(c, S)[s]
  BY <1>1, <1>2
<1>4. SeqSum(Masked(d, T)) = SeqSum(Masked(c, S)) - Masked(c, S)[k] + Masked(d, T)[k]
  BY <1>1, <1>2, <1>3, SumReplace
<1> QED BY <1>1, <1>2, <1>4, MaskedType

\* A total that one row left.
LEMMA TotalWithout ==
  ASSUME NEW c \in Seq(Int), NEW S \in SUBSET (1 .. Len(c)), NEW T \in SUBSET S, NEW k,
         k \notin T, \A s \in S : s # k => s \in T
  PROVE  /\ k \in S => Total(c, T) = Total(c, S) - c[k]
         /\ k \notin S => Total(c, T) = Total(c, S)
<1>1. CASE k \in S
  <2> PICK d \in Seq(Int) : d = c
    OBVIOUS
  <2>1. k \in 1 .. Len(c) /\ k \notin T /\ Len(d) = Len(c)
    BY <1>1
  <2>2. \A s \in 1 .. Len(c) : s # k => (s \in S <=> s \in T) /\ d[s] = c[s]
    OBVIOUS
  <2>3. Total(d, T) = Total(c, S) - (IF k \in S THEN c[k] ELSE 0)
                                  + (IF k \in T THEN d[k] ELSE 0)
    BY ONLY <2>1, <2>2, c \in Seq(Int), d \in Seq(Int), TotalChanged
  <2>4. Total(c, S) \in Int /\ c[k] \in Int
    BY <2>1, MaskedType
  <2> QED BY <1>1, <2>1, <2>3, <2>4
<1>2. CASE k \notin S
  <2>1. T = S
    BY <1>2
  <2>2. Total(c, S) \in Int
    BY MaskedType
  <2> QED BY <1>2, <2>1, <2>2
<1> QED BY <1>1, <1>2

\* A total depends on nothing but the rows it is of.
LEMMA TotalSame ==
  ASSUME NEW c \in Seq(Int), NEW d \in Seq(Int), NEW S, NEW T, Len(d) = Len(c),
         \A s \in 1 .. Len(c) : (s \in S <=> s \in T) /\ d[s] = c[s]
  PROVE  Total(d, T) = Total(c, S)
<1>1. DOMAIN d = DOMAIN c
  OBVIOUS
<1>2. Masked(d, T) = Masked(c, S)
  BY <1>1 DEF Masked
<1> QED BY <1>2, MaskedType

\* No row, no total.
LEMMA TotalEmpty ==
  ASSUME NEW c \in Seq(Int), NEW S, \A s \in 1 .. Len(c) : s \notin S
  PROVE  Total(c, S) = 0
BY MaskedType, SumZero

\* The current session is one that is open.
LEMMA CurrentOpen ==
  ASSUME sessions \in Seq(Session)
  PROVE  /\ HasSession => Current \in OpenSessions /\ Current \in DOMAIN sessions
         /\ HasSession <=> OpenSessions # {}
         /\ Current \in Nat
<1>1. OpenSessions \subseteq DOMAIN sessions /\ OpenSessions \subseteq Nat \ {0}
  BY DEF OpenSessions
<1>2. CASE OpenSessions = {}
  BY <1>2 DEF Current, HasSession
<1>3. CASE OpenSessions # {}
  <2> DEFINE below == {n \in Nat : \E i \in OpenSessions : n = Len(sessions) - i}
  <2>1. PICK o \in OpenSessions : TRUE
    BY <1>3
  <2>2. Len(sessions) - o \in below
    BY <1>1 DEF OpenSessions
  <2>3. PICK n \in below : \A m \in below : n <= m
    BY <2>2, LeastNat
  <2>4. PICK i \in OpenSessions : n = Len(sessions) - i
    BY <2>3
  <2>5. ASSUME NEW j \in OpenSessions
        PROVE  i >= j
    <3>1. Len(sessions) - j \in below
      BY <1>1 DEF OpenSessions
    <3> HIDE DEF below
    <3>2. n <= Len(sessions) - j
      BY <2>3, <3>1
    <3>3. i \in Nat /\ j \in Nat /\ Len(sessions) \in Nat
      BY <1>1
    <3> QED BY <2>4, <3>2, <3>3
  <2>6. Max(OpenSessions) \in OpenSessions
    BY <2>4, <2>5 DEF Max
  <2> QED BY <1>1, <1>3, <2>6 DEF Current, HasSession
<1> QED BY <1>2, <1>3

\* The columns are sequences of numbers, one for each sale.
Columns ==
  /\ Nets \in Seq(Int) /\ Totals \in Seq(Int)
  /\ Len(Nets) = Len(sales) /\ Len(Totals) = Len(sales)
  /\ DOMAIN sales = 1 .. Len(sales)
  /\ \A s \in DOMAIN sales : /\ Nets[s] = sales[s].net /\ Totals[s] = sales[s].paid
                            /\ sales[s] \in SaleRow

\* The columns of the sales are columns.
LEMMA ColumnsType == sales \in Seq(SaleRow) => Columns
<1> SUFFICES ASSUME sales \in Seq(SaleRow)
             PROVE  Columns
  OBVIOUS
<1>1. \A s \in DOMAIN sales : sales[s] \in SaleRow
  OBVIOUS
<1>2. \A s \in DOMAIN sales : sales[s].net \in Int /\ sales[s].paid \in Int
  BY <1>1 DEF SaleRow
<1>3. Len(sales) \in Nat /\ DOMAIN sales = 1 .. Len(sales)
  OBVIOUS
<1>4. /\ Nets \in Seq(Int) /\ Len(Nets) = Len(sales)
      /\ \A s \in DOMAIN sales : Nets[s] = sales[s].net
  BY <1>2, <1>3 DEF Nets
<1>5. /\ Totals \in Seq(Int) /\ Len(Totals) = Len(sales)
      /\ \A s \in DOMAIN sales : Totals[s] = sales[s].paid
  BY <1>2, <1>3 DEF Totals
<1> QED BY <1>1, <1>3, <1>4, <1>5 DEF Columns

\* ... and so they are after a step.
LEMMA NextColumns == (sales \in Seq(SaleRow))' => Columns'
BY ColumnsType, PTL

\* The current session is the latest of those open.
LEMMA CurrentIsOpen ==
  sessions \in Seq(Session) => (HasSession => Current \in OpenSessions)
BY CurrentOpen

\* The rows each of the three totals of a session is of.
RefundRows(i) ==
  {s \in DOMAIN sales : sales[s].method = "Cash" /\ [sale |-> s, session |-> i] \in returns}

VoidRows(i) ==
  {s \in CashSales(i) : sales[s].voided /\ sales[s].status # "amended" /\ ~ReturnedSale(s)}

Balance(i) == CashIn(i) - (Refunded(i) + Voided(i))

\* The balance of a session is made of three totals.
BalanceOf(i) ==
  /\ CashIn(i) = Total(Nets, CashSales(i)) /\ Refunded(i) = Total(Nets, RefundRows(i))
  /\ Voided(i) = Total(Nets, VoidRows(i))
  /\ CashIn(i) \in Int /\ Refunded(i) \in Int /\ Voided(i) \in Int
  /\ Balance(i) = CashIn(i) - (Refunded(i) + Voided(i))

Balances == \A i : BalanceOf(i)

\* What a session expects is a number.
LEMMA BalanceParts == sales \in Seq(SaleRow) => Balances
<1> SUFFICES ASSUME sales \in Seq(SaleRow), NEW i
             PROVE  BalanceOf(i)
  BY DEF Balances
<1>1. /\ CashIn(i) = Total(Nets, CashSales(i)) /\ Refunded(i) = Total(Nets, RefundRows(i))
      /\ Voided(i) = Total(Nets, VoidRows(i))
  BY DEF CashIn, Refunded, Voided, RefundRows, VoidRows
<1>2. CashIn(i) \in Int /\ Refunded(i) \in Int /\ Voided(i) \in Int
  BY <1>1, ColumnsType, MaskedType DEF Columns
<1> QED BY <1>1, <1>2 DEF Balance, BalanceOf

\* ... and so it is after a step.
LEMMA NextBalances == (sales \in Seq(SaleRow))' => Balances'
BY BalanceParts, PTL

\* What the rows of a sale say, beside what was marked on it.
SameSale(r, q) ==
  /\ r.session = q.session /\ r.method = q.method /\ r.net = q.net
  /\ r.paid = q.paid /\ r.first = q.first

\* A sale rung counts with the session it names; one corrected by it keeps
\* counting, and not as a void.
LEMMA RungBalance ==
  ASSUME sales \in Seq(SaleRow), (sales \in Seq(SaleRow))', returns' = returns,
         \A r \in returns : r.sale \in DOMAIN sales,
         Len(sales') = Len(sales) + 1, ~sales'[Len(sales')].voided,
         \A s \in DOMAIN sales :
            /\ SameSale(sales'[s], sales[s])
            /\ sales'[s].voided /\ sales'[s].status # "amended"
               <=> sales[s].voided /\ sales[s].status # "amended",
         NEW i \in Nat
  PROVE  Balance(i)' = Balance(i) + (IF Len(sales') \in CashSales(i)'
                                     THEN sales'[Len(sales')].net ELSE 0)
<1> DEFINE last == Len(sales')
<1>0. /\ CashIn(i) = Total(Nets, CashSales(i)) /\ Refunded(i) = Total(Nets, RefundRows(i))
      /\ Voided(i) = Total(Nets, VoidRows(i))
      /\ CashIn(i) \in Int /\ Refunded(i) \in Int /\ Voided(i) \in Int
      /\ Balance(i) = CashIn(i) - (Refunded(i) + Voided(i))
  BY BalanceParts DEF Balances, BalanceOf
<1>a. /\ CashIn(i)' = Total(Nets', CashSales(i)') /\ Refunded(i)' = Total(Nets', RefundRows(i)')
      /\ Voided(i)' = Total(Nets', VoidRows(i)')
      /\ Balance(i)' = CashIn(i)' - (Refunded(i)' + Voided(i)')
  BY NextBalances DEF Balances, BalanceOf
<1>1. /\ Nets \in Seq(Int) /\ Nets' \in Seq(Int)
      /\ Len(Nets) = Len(sales) /\ Len(Nets') = Len(Nets) + 1
      /\ DOMAIN sales = 1 .. Len(sales) /\ DOMAIN sales' = 1 .. Len(sales')
      /\ \A s \in 1 .. Len(Nets) : Nets[s] = sales[s].net
      /\ \A s \in 1 .. Len(Nets') : Nets'[s] = sales'[s].net
      /\ Len(sales) \in Nat
  <2>1. Columns /\ Columns'
    BY ColumnsType, NextColumns
  <2>2. Len(sales) \in Nat /\ Len(sales') \in Nat
    OBVIOUS
  <2>3. Nets \in Seq(Int) /\ Len(Nets) = Len(sales) /\ DOMAIN sales = 1 .. Len(sales)
        /\ \A s \in DOMAIN sales : Nets[s] = sales[s].net
    BY <2>1 DEF Columns
  <2>4. Nets' \in Seq(Int) /\ Len(Nets') = Len(sales') /\ DOMAIN sales' = 1 .. Len(sales')
        /\ \A s \in DOMAIN sales' : Nets'[s] = sales'[s].net
    BY <2>1 DEF Columns
  <2> QED BY <2>2, <2>3, <2>4
<1>2. last \in DOMAIN sales' /\ last \notin DOMAIN sales /\ \A s \in DOMAIN sales : s \in DOMAIN sales'
  BY <1>1
<1>3. ASSUME NEW s \in 1 .. Len(Nets)
      PROVE  Nets'[s] = Nets[s]
  <2>1. s \in DOMAIN sales /\ s \in 1 .. Len(Nets')
    BY <1>1
  <2>2. SameSale(sales'[s], sales[s])
    BY <2>1
  <2> QED BY <1>1, <2>1, <2>2 DEF SameSale
<1>4. \A s \in 1 .. Len(Nets) : s \in CashSales(i) <=> s \in CashSales(i)'
  BY <1>1, <1>2 DEF CashSales, SameSale
<1>5. \A s \in 1 .. Len(Nets) : s \in RefundRows(i) <=> s \in RefundRows(i)'
  BY <1>1, <1>2 DEF RefundRows, SameSale
<1>6. \A s \in 1 .. Len(Nets) : s \in VoidRows(i) <=> s \in VoidRows(i)'
  <2>1. \A s : ReturnedSale(s)' <=> ReturnedSale(s)
    BY DEF ReturnedSale
  <2> QED BY <1>1, <1>4, <2>1 DEF VoidRows
<1>7. last \notin RefundRows(i)' /\ last \notin VoidRows(i)'
  <2>1. [sale |-> last, session |-> i] \notin returns
    BY <1>2
  <2> QED BY <2>1 DEF RefundRows, VoidRows
<1>b. /\ Len(Nets') = last /\ Nets'[last] = sales'[last].net /\ Nets'[last] \in Int
      /\ \A s \in 1 .. Len(Nets) : Nets'[s] = Nets[s]
  BY <1>1, <1>2, <1>3
<1>8. CashIn(i)' = CashIn(i) + (IF last \in CashSales(i)' THEN Nets'[last] ELSE 0)
  <2>1. Total(Nets', CashSales(i)') = Total(Nets, CashSales(i)) +
          (IF Len(Nets') \in CashSales(i)' THEN Nets'[Len(Nets')] ELSE 0)
    <3>1. \A s \in 1 .. Len(Nets) :
             (s \in CashSales(i) <=> s \in CashSales(i)') /\ Nets'[s] = Nets[s]
      BY <1>b, <1>4
    <3>2. Nets \in Seq(Int) /\ Nets' \in Seq(Int) /\ Len(Nets') = Len(Nets) + 1
      BY <1>1
    <3> QED BY ONLY <3>1, <3>2, TotalAppended
  <2> QED BY <1>0, <1>a, <1>b, <2>1
<1>9. Refunded(i)' = Refunded(i) /\ Voided(i)' = Voided(i)
  <2>1. Total(Nets', RefundRows(i)') = Total(Nets, RefundRows(i)) +
          (IF Len(Nets') \in RefundRows(i)' THEN Nets'[Len(Nets')] ELSE 0)
    <3>1. \A s \in 1 .. Len(Nets) :
             (s \in RefundRows(i) <=> s \in RefundRows(i)') /\ Nets'[s] = Nets[s]
      BY <1>b, <1>5
    <3>2. Nets \in Seq(Int) /\ Nets' \in Seq(Int) /\ Len(Nets') = Len(Nets) + 1
      BY <1>1
    <3> QED BY ONLY <3>1, <3>2, TotalAppended
  <2>2. Total(Nets', VoidRows(i)') = Total(Nets, VoidRows(i)) +
          (IF Len(Nets') \in VoidRows(i)' THEN Nets'[Len(Nets')] ELSE 0)
    <3>1. \A s \in 1 .. Len(Nets) :
             (s \in VoidRows(i) <=> s \in VoidRows(i)') /\ Nets'[s] = Nets[s]
      BY <1>b, <1>6
    <3>2. Nets \in Seq(Int) /\ Nets' \in Seq(Int) /\ Len(Nets') = Len(Nets) + 1
      BY <1>1
    <3> QED BY ONLY <3>1, <3>2, TotalAppended
  <2> QED BY <1>0, <1>a, <1>b, <1>7, <2>1, <2>2
<1> QED BY <1>8, <1>9, <1>b, <1>0, <1>a

\* A sale taken back leaves the balance of its session by one of the two
\* ways, the return or the void, and not by both.
LEMMA TakenBackBalance ==
  ASSUME sales \in Seq(SaleRow), (sales \in Seq(SaleRow))', NEW k \in DOMAIN sales, NEW i \in Nat,
         Standing(k), ~ReturnedSale(k), Len(sales') = Len(sales),
         sales'[k].voided, sales'[k].status # "amended", SameSale(sales'[k], sales[k]),
         \A s \in DOMAIN sales : s # k => sales'[s] = sales[s],
         \/ returns' = returns /\ (sales[k].method = "Cash" => sales[k].session = i)
         \/ returns' = returns \union {[sale |-> k, session |-> i]}
  PROVE  Balance(i)' = Balance(i) - Cash(sales[k].method, sales[k].net)
<1>0. /\ CashIn(i) = Total(Nets, CashSales(i)) /\ Refunded(i) = Total(Nets, RefundRows(i))
      /\ Voided(i) = Total(Nets, VoidRows(i))
      /\ CashIn(i) \in Int /\ Refunded(i) \in Int /\ Voided(i) \in Int
      /\ Balance(i) = CashIn(i) - (Refunded(i) + Voided(i))
  BY BalanceParts DEF Balances, BalanceOf
<1>a. /\ CashIn(i)' = Total(Nets', CashSales(i)') /\ Refunded(i)' = Total(Nets', RefundRows(i)')
      /\ Voided(i)' = Total(Nets', VoidRows(i)')
      /\ Balance(i)' = CashIn(i)' - (Refunded(i)' + Voided(i)')
  BY NextBalances DEF Balances, BalanceOf
<1>1. /\ Nets \in Seq(Int) /\ Nets' \in Seq(Int)
      /\ Len(Nets) = Len(sales) /\ Len(Nets') = Len(Nets)
      /\ DOMAIN sales = 1 .. Len(sales) /\ DOMAIN sales' = DOMAIN sales
      /\ \A s \in 1 .. Len(Nets) : Nets[s] = sales[s].net /\ Nets'[s] = sales'[s].net
      /\ k \in 1 .. Len(Nets)
  <2>1. Columns /\ Columns'
    BY ColumnsType, NextColumns
  <2>2. Len(sales) \in Nat /\ Len(sales') \in Nat
    OBVIOUS
  <2>3. Nets \in Seq(Int) /\ Len(Nets) = Len(sales) /\ DOMAIN sales = 1 .. Len(sales)
        /\ \A s \in DOMAIN sales : Nets[s] = sales[s].net
    BY <2>1 DEF Columns
  <2>4. Nets' \in Seq(Int) /\ Len(Nets') = Len(sales') /\ DOMAIN sales' = 1 .. Len(sales')
        /\ \A s \in DOMAIN sales' : Nets'[s] = sales'[s].net
    BY <2>1 DEF Columns
  <2> QED BY <2>2, <2>3, <2>4
<1>2. \A s \in 1 .. Len(Nets) : Nets'[s] = Nets[s]
  BY <1>1 DEF SameSale
<1>3. \A s \in 1 .. Len(Nets) : s \in CashSales(i) <=> s \in CashSales(i)'
  BY <1>1 DEF CashSales, SameSale
<1>4. CashIn(i)' = CashIn(i)
  <2>1. Total(Nets', CashSales(i)') = Total(Nets, CashSales(i))
    <3>1. \A s \in 1 .. Len(Nets) :
             (s \in CashSales(i) <=> s \in CashSales(i)') /\ Nets'[s] = Nets[s]
      BY <1>2, <1>3
    <3>2. Nets \in Seq(Int) /\ Nets' \in Seq(Int) /\ Len(Nets') = Len(Nets)
      BY <1>1
    <3> QED BY ONLY <3>1, <3>2, TotalSame
  <2> QED BY <1>0, <1>a, <2>1
<1>5. k \notin RefundRows(i) /\ k \notin VoidRows(i)
  BY DEF RefundRows, VoidRows, Standing, ReturnedSale
<1>6. \A s \in 1 .. Len(Nets) : s # k => (s \in RefundRows(i) <=> s \in RefundRows(i)')
  BY <1>1 DEF RefundRows
<1>7. \A s \in 1 .. Len(Nets) : s # k => (s \in VoidRows(i) <=> s \in VoidRows(i)')
  <2>1. ASSUME NEW s \in 1 .. Len(Nets), s # k
        PROVE  ReturnedSale(s)' <=> ReturnedSale(s)
    BY <2>1 DEF ReturnedSale
  <2> QED BY <1>1, <1>3, <2>1 DEF VoidRows
<1>8. /\ Refunded(i)' = Refunded(i) + (IF k \in RefundRows(i)' THEN Nets[k] ELSE 0)
      /\ Voided(i)' = Voided(i) + (IF k \in VoidRows(i)' THEN Nets[k] ELSE 0)
  <2>1. /\ Refunded(i)' = Refunded(i) - 0 + (IF k \in RefundRows(i)' THEN Nets'[k] ELSE 0)
    BY <1>1, <1>2, <1>5, <1>6, <1>0, <1>a, TotalChanged
  <2>2. /\ Voided(i)' = Voided(i) - 0 + (IF k \in VoidRows(i)' THEN Nets'[k] ELSE 0)
    BY <1>1, <1>2, <1>5, <1>7, <1>0, <1>a, TotalChanged
  <2> QED BY <1>1, <1>2, <2>1, <2>2, <1>0, <1>a
<1>9. CASE returns' = returns /\ (sales[k].method = "Cash" => sales[k].session = i)
  <2>1. k \notin RefundRows(i)'
    BY <1>9, <1>1 DEF RefundRows, ReturnedSale
  <2>2. k \in VoidRows(i)' <=> sales[k].method = "Cash"
    BY <1>9, <1>1 DEF VoidRows, CashSales, ReturnedSale, SameSale
  <2>3. Refunded(i)' = Refunded(i) /\ Voided(i)' = Voided(i) + Cash(sales[k].method, Nets[k])
    BY <1>0, <1>8, <2>1, <2>2 DEF Cash
  <2>4. Nets[k] = sales[k].net /\ Cash(sales[k].method, Nets[k]) \in Int
    BY <1>1 DEF Cash
  <2> QED BY <1>4, <2>3, <2>4, <1>0, <1>a
<1>10. CASE returns' = returns \union {[sale |-> k, session |-> i]}
  <2>1. k \notin VoidRows(i)'
    <3>1. [sale |-> k, session |-> i] \in returns' /\ [sale |-> k, session |-> i].sale = k
      BY <1>10
    <3> QED BY <3>1 DEF VoidRows, ReturnedSale
  <2>2. k \in RefundRows(i)' <=> sales[k].method = "Cash"
    BY <1>10, <1>1 DEF RefundRows, SameSale
  <2> QED BY <1>1, <1>4, <1>8, <2>1, <2>2, <1>0, <1>a DEF Cash
<1> QED BY <1>9, <1>10

\* Sales name a session and the sale their chain began with, and a sale
\* never corrected stands in the till at its total.
RowsLinked ==
  \A s \in DOMAIN sales :
    /\ sales[s].session \in DOMAIN sessions
    /\ sales[s].first \in 1 .. s
    /\ sales[s].first = s /\ sales[s].method = "Cash" => sales[s].net = sales[s].paid

ReturnsMarked == \A r \in returns : sales[r.sale].status = "returned"

\* Of two open sessions both are tainted.
RivalsTainted == \A i, j \in OpenSessions : i # j => i \in tainted

DrawerInv == DrawerTypeOK /\ RowsLinked /\ ReturnsMarked /\ RivalsTainted

\* Before the first session there is nothing to count.
LEMMA DrawerInitial == DrawerInit => DrawerInv /\ OnlyKnownDrift /\ CustomerPaidTheTotal
<1> SUFFICES ASSUME DrawerInit
             PROVE  DrawerInv /\ OnlyKnownDrift /\ CustomerPaidTheTotal
  OBVIOUS
<1>1. DrawerTypeOK
  BY DEF DrawerInit, DrawerTypeOK
<1>2. RowsLinked /\ ReturnsMarked /\ CustomerPaidTheTotal
  BY DEF DrawerInit, RowsLinked, ReturnsMarked, CustomerPaidTheTotal
<1>3. OpenSessions = {}
  BY DEF DrawerInit, OpenSessions
<1>4. RivalsTainted /\ OnlyKnownDrift
  BY <1>3, CurrentOpen, <1>1 DEF RivalsTainted, OnlyKnownDrift, DrawerTypeOK
<1> QED BY <1>1, <1>2, <1>4 DEF DrawerInv

\* What the current session is depends on the sessions alone.
LEMMA SameSessions ==
  ASSUME sessions' = sessions
  PROVE  OpenSessions' = OpenSessions /\ Current' = Current /\ (HasSession' <=> HasSession)
BY DEF OpenSessions, Current, HasSession

\* A sale rung is a sale row of the current session.
LEMMA RowType ==
  ASSUME DrawerTypeOK, HasSession, NEW m \in Method, NEW a \in Nat, NEW prepaid \in Nat,
         NEW first \in Nat
  PROVE  /\ Row(m, a, prepaid, first) \in SaleRow
         /\ Row(m, a, prepaid, first).session = Current
         /\ Row(m, a, prepaid, first).first = first
         /\ Row(m, a, prepaid, first).paid = a
         /\ Row(m, a, prepaid, first).method = m
         /\ Row(m, a, prepaid, first).status = "completed"
         /\ ~Row(m, a, prepaid, first).voided
         /\ m = "Cash" => Row(m, a, prepaid, first).net = a - prepaid
<1>1. Current \in Nat \ {0}
  BY CurrentOpen DEF DrawerTypeOK, HasSession
<1>2. Net(m, a - prepaid) \in Int /\ (m = "Cash" => Net(m, a - prepaid) = a - prepaid)
  BY DEF Net
<1> QED BY <1>1, <1>2 DEF Row, SaleRow

\* A sale the customer still holds was not returned.
LEMMA StandingKept ==
  ASSUME ReturnsMarked, NEW s, Standing(s)
  PROVE  ~ReturnedSale(s)
BY DEF ReturnsMarked, Standing, ReturnedSale

\* What a till request does to the rows: a sale is rung, after one is taken
\* off the books or not; or one is taken back.
Marked(s, status) == [sales EXCEPT ![s].status = status, ![s].voided = TRUE]

Rung(s, row) ==
  \/ s = 0 /\ sales' = Append(sales, row)
  \/ s \in DOMAIN sales /\ sales' = Append(Marked(s, "amended"), row)

\* Marking a sale returned or voided leaves its amounts.
LEMMA MarkedRows ==
  ASSUME sales \in Seq(SaleRow), NEW s \in DOMAIN sales,
         NEW status \in {"completed", "amended", "returned"}
  PROVE  /\ Marked(s, status) \in Seq(SaleRow) /\ Len(Marked(s, status)) = Len(sales)
         /\ DOMAIN Marked(s, status) = DOMAIN sales
         /\ Marked(s, status)[s].status = status /\ Marked(s, status)[s].voided
         /\ \A k \in DOMAIN sales : SameSale(Marked(s, status)[k], sales[k])
         /\ \A k \in DOMAIN sales : k # s => Marked(s, status)[k] = sales[k]
<1> DEFINE rows == Marked(s, status)
           q == [sales[s] EXCEPT !.status = status, !.voided = TRUE]
<1>1. q \in SaleRow /\ SameSale(q, sales[s]) /\ q.status = status /\ q.voided
  <2>1. sales[s] \in SaleRow
    OBVIOUS
  <2> QED BY <2>1 DEF SaleRow, SameSale
<1>2. rows[s] = q /\ \A k \in DOMAIN sales : k # s => rows[k] = sales[k]
  BY DEF Marked
<1>3. DOMAIN rows = DOMAIN sales /\ rows = [k \in DOMAIN sales |-> rows[k]]
  BY DEF Marked
<1> HIDE DEF q, rows
<1>4. rows = [sales EXCEPT ![s] = q]
  BY <1>2, <1>3
<1>5. rows \in Seq(SaleRow) /\ Len(rows) = Len(sales) /\ DOMAIN rows = DOMAIN sales
  <2>1. sales \in Seq(SaleRow) /\ s \in DOMAIN sales
    OBVIOUS
  <2> QED BY ONLY <1>1, <1>4, <2>1
<1> QED BY <1>1, <1>2, <1>3, <1>5 DEF SameSale, rows

\* A sale that is rung is the last row.
LEMMA RungRows ==
  ASSUME DrawerTypeOK, NEW s, NEW row \in SaleRow, Rung(s, row)
  PROVE  /\ sales' \in Seq(SaleRow) /\ Len(sales') = Len(sales) + 1
         /\ DOMAIN sales' = DOMAIN sales \union {Len(sales')}
         /\ sales'[Len(sales')] = row
         /\ Len(sales') \notin DOMAIN sales
         /\ \A k \in DOMAIN sales : SameSale(sales'[k], sales[k])
         /\ \A k \in DOMAIN sales : k # s => sales'[k] = sales[k]
         /\ s \in DOMAIN sales => sales'[s].status = "amended" /\ sales'[s].voided
<1> DEFINE marked == Marked(s, "amended")
<1>1. sales \in Seq(SaleRow) /\ \A k \in DOMAIN sales : sales[k] \in SaleRow
  BY DEF DrawerTypeOK
<1>2. CASE s = 0 /\ sales' = Append(sales, row)
  BY <1>1, <1>2 DEF SameSale
<1>3. CASE s \in DOMAIN sales /\ sales' = Append(marked, row)
  <2>1. /\ marked \in Seq(SaleRow) /\ Len(marked) = Len(sales)
        /\ \A k \in DOMAIN sales : SameSale(marked[k], sales[k])
        /\ \A k \in DOMAIN sales : k # s => marked[k] = sales[k]
        /\ marked[s].status = "amended" /\ marked[s].voided
    BY <1>1, <1>3, MarkedRows
  <2> HIDE DEF marked
  <2>2. \A k \in DOMAIN sales : sales'[k] = marked[k]
    BY <1>1, <1>3, <2>1
  <2>3. /\ sales' \in Seq(SaleRow) /\ Len(sales') = Len(sales) + 1
        /\ sales'[Len(sales')] = row
    BY <1>1, <1>3, <2>1
  <2> QED BY <1>1, <1>3, <2>1, <2>2, <2>3
<1> QED BY <1>2, <1>3 DEF Rung

TakenBack(s, status) == sales' = Marked(s, status)

\* A sale that is taken back stands no more.
LEMMA TakenBackRows ==
  ASSUME DrawerTypeOK, NEW s \in DOMAIN sales, NEW status \in {"completed", "returned"},
         TakenBack(s, status)
  PROVE  /\ sales' \in Seq(SaleRow) /\ Len(sales') = Len(sales) /\ DOMAIN sales' = DOMAIN sales
         /\ sales'[s].status = status /\ sales'[s].voided
         /\ \A k \in DOMAIN sales : SameSale(sales'[k], sales[k])
         /\ \A k \in DOMAIN sales : k # s => sales'[k] = sales[k]
<1>1. sales \in Seq(SaleRow)
  BY DEF DrawerTypeOK
<1> QED BY <1>1, MarkedRows DEF TakenBack

\* The float of a session is a number.
LEMMA FloatType ==
  ASSUME sessions \in Seq(Session), NEW i \in DOMAIN sessions
  PROVE  sessions[i].float \in Int
<1>1. sessions[i] \in Session
  OBVIOUS
<1> QED BY <1>1 DEF Session

\* A sale rung, or rung again, keeps the rows linked and the drawer in
\* balance.
LEMMA RungKeeps ==
  ASSUME DrawerInv, HasSession, NEW s, NEW row \in SaleRow, Rung(s, row),
         s \in DOMAIN sales => Standing(s),
         row.session = Current, row.status = "completed", ~row.voided,
         row.first \in 1 .. Len(sales) + 1,
         row.first = Len(sales) + 1 /\ row.method = "Cash" => row.net = row.paid,
         drawer' = drawer + Cash(row.method, row.net),
         taken' \in Seq(Int), Len(taken') = Len(taken) + 1,
         UNCHANGED <<sessions, returns, opening, tainted>>
  PROVE  DrawerInv' /\ (OnlyKnownDrift => OnlyKnownDrift')
<1>1. /\ DrawerTypeOK /\ RowsLinked /\ ReturnsMarked /\ RivalsTainted
      /\ sales \in Seq(SaleRow) /\ sessions \in Seq(Session)
      /\ DOMAIN sales = 1 .. Len(sales) /\ Len(sales) \in Nat
      /\ \A k \in DOMAIN sales : sales[k] \in SaleRow
      /\ \A r \in returns : r.sale \in DOMAIN sales
  BY DEF DrawerInv, DrawerTypeOK
<1>2. /\ sales' \in Seq(SaleRow) /\ Len(sales') = Len(sales) + 1
      /\ DOMAIN sales' = DOMAIN sales \union {Len(sales')}
      /\ sales'[Len(sales')] = row
      /\ Len(sales') \notin DOMAIN sales
      /\ \A k \in DOMAIN sales : SameSale(sales'[k], sales[k])
      /\ \A k \in DOMAIN sales : k # s => sales'[k] = sales[k]
      /\ s \in DOMAIN sales => sales'[s].status = "amended" /\ sales'[s].voided
  BY <1>1, RungRows
<1>3. Current \in DOMAIN sessions /\ Current \in Nat /\ Current \in OpenSessions
  BY <1>1, CurrentOpen
<1>4. row.net \in Int /\ drawer \in Int /\ Cash(row.method, row.net) \in Int
  BY <1>1 DEF SaleRow, DrawerTypeOK, Cash
<1>5. OpenSessions' = OpenSessions /\ Current' = Current /\ (HasSession' <=> HasSession)
  BY SameSessions
<1>6. DrawerTypeOK'
  <2>1. drawer' \in Int /\ Len(taken') = Len(sales')
    BY <1>1, <1>2, <1>4 DEF DrawerTypeOK
  <2>2. returns' \subseteq [sale : DOMAIN sales', session : DOMAIN sessions']
    BY <1>1, <1>2 DEF DrawerTypeOK
  <2> QED BY <1>1, <1>2, <2>1, <2>2 DEF DrawerTypeOK
<1>7. RowsLinked'
  <2> SUFFICES ASSUME NEW k \in DOMAIN sales'
               PROVE  /\ sales'[k].session \in DOMAIN sessions
                      /\ sales'[k].first \in 1 .. k
                      /\ sales'[k].first = k /\ sales'[k].method = "Cash"
                           => sales'[k].net = sales'[k].paid
    BY DEF RowsLinked
  <2>1. CASE k \in DOMAIN sales
    <3>1. SameSale(sales'[k], sales[k])
      BY <1>2, <2>1
    <3> QED BY <1>1, <2>1, <3>1 DEF RowsLinked, SameSale
  <2>2. CASE k = Len(sales')
    BY <1>1, <1>2, <1>3, <2>2
  <2> QED BY <1>2, <2>1, <2>2
<1>8. ReturnsMarked'
  <2> SUFFICES ASSUME NEW r \in returns
               PROVE  sales'[r.sale].status = "returned"
    BY DEF ReturnsMarked
  <2>1. sales[r.sale].status = "returned" /\ r.sale \in DOMAIN sales
    BY <1>1 DEF ReturnsMarked
  <2>2. r.sale # s
    BY <2>1 DEF Standing
  <2> QED BY <1>2, <2>1, <2>2
<1>9. RivalsTainted'
  BY <1>1, <1>5 DEF RivalsTainted
<1>10. ASSUME OnlyKnownDrift, Current \notin tainted
       PROVE  drawer' = Expected(Current)'
  <2> PICK i \in Nat : i = Current
    BY <1>3
  <2>0. sessions[i].float \in Int
    BY <1>1, <1>3, FloatType
  <2>1. drawer = sessions[i].float + Balance(i)
    <3>1. drawer = Expected(i) /\ BalanceOf(i)
      BY <1>1, <1>10, BalanceParts DEF OnlyKnownDrift, Balances
    <3> QED BY <2>0, <3>1 DEF Expected, BalanceOf
  <2>2. \A k \in DOMAIN sales :
           /\ SameSale(sales'[k], sales[k])
           /\ sales'[k].voided /\ sales'[k].status # "amended"
              <=> sales[k].voided /\ sales[k].status # "amended"
    BY <1>2 DEF Standing
  <2>3. i \in Nat /\ (sales \in Seq(SaleRow))' /\ ~sales'[Len(sales')].voided /\ returns' = returns
    BY <1>2, <1>3
  <2>4. Balance(i)' = Balance(i) + (IF Len(sales') \in CashSales(i)'
                                    THEN sales'[Len(sales')].net ELSE 0)
    BY <1>1, <1>2, <2>2, <2>3, RungBalance
  <2>5. Len(sales') \in CashSales(i)' <=> row.method = "Cash"
    BY <1>2, <1>5 DEF CashSales
  <2>6. Balance(i)' = Balance(i) + Cash(row.method, row.net)
    BY <1>2, <2>4, <2>5 DEF Cash
  <2>7. Balance(i) \in Int /\ BalanceOf(i)'
    <3>1. BalanceOf(i)
      BY <1>1, BalanceParts DEF Balances
    <3>2. BalanceOf(i)'
      BY <2>3, NextBalances DEF Balances
    <3> QED BY <3>1, <3>2 DEF BalanceOf
  <2>8. Expected(Current)' = sessions[i].float + Balance(i)'
    <3>1. Expected(i)' = sessions'[i].float + CashIn(i)' - (Refunded(i)' + Voided(i)')
      BY DEF Expected
    <3>2. Expected(Current)' = Expected(i)'
      BY <1>5
    <3> QED BY <2>0, <2>7, <3>1, <3>2 DEF BalanceOf
  <2> QED BY <1>4, <2>0, <2>1, <2>6, <2>7, <2>8
<1> QED BY <1>5, <1>6, <1>7, <1>8, <1>9, <1>10 DEF DrawerInv, OnlyKnownDrift

\* A sale taken back keeps the rows linked, and the drawer in balance unless
\* the session is tainted by it.
LEMMA TakenBackKeeps ==
  ASSUME DrawerInv, NEW s \in DOMAIN sales, Standing(s), NEW status \in {"completed", "returned"},
         TakenBack(s, status),
         \/ returns' = returns
         \/ /\ HasSession /\ status = "returned"
            /\ returns' = returns \union {[sale |-> s, session |-> Current]},
         tainted \subseteq tainted', tainted' \subseteq DOMAIN sessions,
         drawer' \in Int,
         HasSession => drawer' = drawer - Cash(sales[s].method, sales[s].paid),
         HasSession /\ Current \notin tainted' /\ sales[s].method = "Cash" =>
           sales[s].first = s /\ (returns' = returns => sales[s].session = Current),
         taken' \in Seq(Int), Len(taken') = Len(taken),
         UNCHANGED <<sessions, opening>>
  PROVE  DrawerInv' /\ (OnlyKnownDrift => OnlyKnownDrift')
<1>1. /\ DrawerTypeOK /\ RowsLinked /\ ReturnsMarked /\ RivalsTainted
      /\ sales \in Seq(SaleRow) /\ sessions \in Seq(Session)
      /\ DOMAIN sales = 1 .. Len(sales) /\ Len(sales) \in Nat
      /\ \A k \in DOMAIN sales : sales[k] \in SaleRow
      /\ \A r \in returns : r.sale \in DOMAIN sales
  BY DEF DrawerInv, DrawerTypeOK
<1>2. /\ sales' \in Seq(SaleRow) /\ Len(sales') = Len(sales) /\ DOMAIN sales' = DOMAIN sales
      /\ sales'[s].status = status /\ sales'[s].voided
      /\ \A k \in DOMAIN sales : SameSale(sales'[k], sales[k])
      /\ \A k \in DOMAIN sales : k # s => sales'[k] = sales[k]
  BY <1>1, TakenBackRows
<1>3. ~ReturnedSale(s)
  BY <1>1, StandingKept
<1>4. HasSession => Current \in DOMAIN sessions /\ Current \in Nat
  BY <1>1, CurrentOpen
<1>5. OpenSessions' = OpenSessions /\ Current' = Current /\ (HasSession' <=> HasSession)
  BY SameSessions
<1>6. DrawerTypeOK'
  <2>1. returns' \subseteq [sale : DOMAIN sales', session : DOMAIN sessions']
    BY <1>1, <1>2, <1>4 DEF DrawerTypeOK
  <2>2. Len(taken') = Len(sales')
    BY <1>1, <1>2 DEF DrawerTypeOK
  <2> QED BY <1>1, <1>2, <2>1, <2>2 DEF DrawerTypeOK
<1>7. RowsLinked'
  BY <1>1, <1>2 DEF RowsLinked, SameSale
<1>8. ReturnsMarked'
  <2> SUFFICES ASSUME NEW r \in returns'
               PROVE  sales'[r.sale].status = "returned"
    BY DEF ReturnsMarked
  <2>1. CASE r \in returns
    <3>1. r.sale # s /\ r.sale \in DOMAIN sales /\ sales[r.sale].status = "returned"
      BY <1>1, <1>3, <2>1 DEF ReturnedSale, ReturnsMarked
    <3> QED BY <1>2, <3>1
  <2>2. CASE r \notin returns
    <3>1. r = [sale |-> s, session |-> Current] /\ status = "returned"
      BY <2>2
    <3> QED BY <1>2, <3>1
  <2> QED BY <2>1, <2>2
<1>9. RivalsTainted'
  BY <1>1, <1>5 DEF RivalsTainted
<1>10. ASSUME OnlyKnownDrift, HasSession, Current \notin tainted'
       PROVE  drawer' = Expected(Current)'
  <2> PICK i \in Nat : i = Current
    BY <1>4, <1>10
  <2>0. sessions[i].float \in Int
    BY <1>1, <1>4, <1>10, FloatType
  <2>1. drawer = sessions[i].float + Balance(i)
    <3>1. drawer = Expected(i) /\ BalanceOf(i)
      BY <1>1, <1>10, BalanceParts DEF OnlyKnownDrift, Balances
    <3> QED BY <2>0, <3>1 DEF Expected, BalanceOf
  <2>2. sales[s].method = "Cash" => sales[s].net = sales[s].paid
    BY <1>1, <1>10 DEF RowsLinked
  <2>3. \/ returns' = returns /\ (sales[s].method = "Cash" => sales[s].session = i)
        \/ returns' = returns \union {[sale |-> s, session |-> i]}
    BY <1>10
  <2>4. (sales \in Seq(SaleRow))' /\ sales'[s].status # "amended" /\ SameSale(sales'[s], sales[s])
    BY <1>2
  <2>5. Balance(i)' = Balance(i) - Cash(sales[s].method, sales[s].net)
    BY <1>1, <1>2, <1>3, <2>3, <2>4, TakenBackBalance
  <2>6. Cash(sales[s].method, sales[s].net) = Cash(sales[s].method, sales[s].paid)
        /\ Cash(sales[s].method, sales[s].net) \in Int
    <3>1. sales[s] \in SaleRow
      BY <1>1
    <3> QED BY <2>2, <3>1 DEF Cash, SaleRow
  <2>7. Balance(i) \in Int /\ BalanceOf(i)'
    <3>1. BalanceOf(i)
      BY <1>1, BalanceParts DEF Balances
    <3>2. BalanceOf(i)'
      BY <2>4, NextBalances DEF Balances
    <3> QED BY <3>1, <3>2 DEF BalanceOf
  <2>8. Expected(Current)' = sessions[i].float + Balance(i)'
    <3>1. Expected(i)' = sessions'[i].float + CashIn(i)' - (Refunded(i)' + Voided(i)')
      BY DEF Expected
    <3>2. Expected(Current)' = Expected(i)'
      BY <1>5
    <3> QED BY <2>0, <2>7, <3>1, <3>2 DEF BalanceOf
  <2> QED BY <1>10, <2>0, <2>1, <2>5, <2>6, <2>7, <2>8
<1> QED BY <1>5, <1>6, <1>7, <1>8, <1>9, <1>10 DEF DrawerInv, OnlyKnownDrift

\* A session opened beside another taints both; the first one starts with
\* its float, and no row is of it yet.
LEMMA OpenKeeps ==
  ASSUME DrawerInv, NEW float \in Nat, OpenSession(float)
  PROVE  DrawerInv' /\ OnlyKnownDrift'
<1> DEFINE new == Len(sessions) + 1
           row == [status |-> "open", float |-> float, expected |-> 0, counted |-> 0]
<1>1. /\ DrawerTypeOK /\ RowsLinked /\ ReturnsMarked /\ RivalsTainted
      /\ sales \in Seq(SaleRow) /\ sessions \in Seq(Session) /\ opening \in Nat
      /\ DOMAIN sessions = 1 .. Len(sessions) /\ Len(sessions) \in Nat
      /\ opening > 0 /\ opening' = opening - 1 /\ sessions' = Append(sessions, row)
      /\ UNCHANGED <<sales, returns, taken>>
  BY DEF DrawerInv, DrawerTypeOK, OpenSession
<1>2. row \in Session
  BY DEF Session
<1>3. /\ sessions' \in Seq(Session) /\ DOMAIN sessions' = DOMAIN sessions \union {new}
      /\ sessions'[new] = row /\ new \notin DOMAIN sessions
      /\ \A i \in DOMAIN sessions : sessions'[i] = sessions[i]
  <2> HIDE DEF row
  <2> QED BY <1>1, <1>2
<1>4. OpenSessions' = OpenSessions \union {new} /\ OpenSessions \subseteq DOMAIN sessions
  BY <1>3 DEF OpenSessions
<1>5. HasSession <=> OpenSessions # {}
  BY <1>1, CurrentOpen
<1>6. tainted' = IF HasSession THEN tainted \union OpenSessions \union {new} ELSE tainted
  BY DEF OpenSession
<1>7. drawer' \in Int /\ (~HasSession => drawer' = float)
  BY <1>1 DEF OpenSession, DrawerTypeOK
<1>8. DrawerTypeOK'
  <2>1. tainted' \subseteq DOMAIN sessions'
    BY <1>1, <1>3, <1>4, <1>6 DEF DrawerTypeOK
  <2>2. returns' \subseteq [sale : DOMAIN sales', session : DOMAIN sessions']
    BY <1>1, <1>3 DEF DrawerTypeOK
  <2> QED BY <1>1, <1>3, <1>7, <2>1, <2>2 DEF DrawerTypeOK
<1>9. RowsLinked'
  BY <1>1, <1>3 DEF RowsLinked
<1>10. ReturnsMarked' /\ RivalsTainted'
  BY <1>1, <1>4, <1>5, <1>6 DEF ReturnsMarked, RivalsTainted
<1>11. ASSUME HasSession', Current' \notin tainted'
       PROVE  drawer' = Expected(Current)'
  <2>1. Current' \in OpenSessions'
    <3>1. (sessions \in Seq(Session))' => (HasSession => Current \in OpenSessions)'
      BY CurrentIsOpen, PTL
    <3> QED BY <1>3, <1>11, <3>1
  <2>2. ~HasSession /\ Current' = new
    BY <1>4, <1>5, <1>6, <1>11, <2>1
  <2> PICK i \in Nat : i = new
    BY <1>1
  <2>3. \A k \in DOMAIN sales : sales[k].session # i
    BY <1>1, <1>3 DEF RowsLinked
  <2>4. CashSales(i)' = {} /\ VoidRows(i)' = {}
    BY <1>1, <2>3 DEF CashSales, VoidRows
  <2>5. RefundRows(i)' = {}
    BY <1>1, <1>3 DEF RefundRows, DrawerTypeOK
  <2>6. BalanceOf(i)' /\ Nets' \in Seq(Int)
    BY <1>1, NextBalances, NextColumns DEF Balances, Columns
  <2>7. CashIn(i)' = 0 /\ Refunded(i)' = 0 /\ Voided(i)' = 0
    <3>1. \A c \in Seq(Int) : Total(c, {}) = 0
      BY TotalEmpty
    <3> QED BY <2>4, <2>5, <2>6, <3>1 DEF BalanceOf
  <2>8. Expected(Current)' = sessions'[i].float + CashIn(i)' - (Refunded(i)' + Voided(i)')
    BY <2>2 DEF Expected
  <2> QED BY <1>3, <1>7, <2>2, <2>7, <2>8
<1> QED BY <1>8, <1>9, <1>10, <1>11 DEF DrawerInv, OnlyKnownDrift

\* A session closed leaves none open that is not tainted.
LEMMA CloseKeeps ==
  ASSUME DrawerInv, CloseSession
  PROVE  DrawerInv' /\ OnlyKnownDrift'
<1> PICK i : i = Current
  OBVIOUS
<1>1. /\ DrawerTypeOK /\ RowsLinked /\ ReturnsMarked /\ RivalsTainted
      /\ sales \in Seq(SaleRow) /\ sessions \in Seq(Session) /\ HasSession
      /\ drawer \in Int /\ drawer' = 0
      /\ UNCHANGED <<sales, returns, opening, taken, tainted>>
  BY DEF DrawerInv, DrawerTypeOK, CloseSession
<1>2. i \in OpenSessions /\ i \in DOMAIN sessions
  BY <1>1, CurrentOpen
<1> DEFINE row == [sessions[i] EXCEPT !.status = "closed", !.expected = Expected(i),
                                      !.counted = drawer]
<1>3. row \in Session /\ row.status = "closed"
  <2>1. sessions[i] \in Session
    BY <1>1, <1>2
  <2>2. Expected(i) \in Int
    BY <1>1, <1>2, BalanceParts, FloatType DEF Balances, BalanceOf, Expected
  <2> QED BY <1>1, <2>1, <2>2 DEF Session
<1>4. sessions' = [sessions EXCEPT ![i] = row]
  BY <1>2 DEF CloseSession
<1>5. /\ sessions' \in Seq(Session) /\ DOMAIN sessions' = DOMAIN sessions
      /\ sessions'[i].status = "closed" /\ \A j \in DOMAIN sessions : j # i => sessions'[j] = sessions[j]
  <2> HIDE DEF row
  <2> QED BY <1>1, <1>2, <1>3, <1>4
<1>6. OpenSessions' = OpenSessions \ {i}
  BY <1>2, <1>5 DEF OpenSessions
<1>7. DrawerTypeOK'
  BY <1>1, <1>5 DEF DrawerTypeOK
<1>8. RowsLinked' /\ ReturnsMarked' /\ RivalsTainted'
  BY <1>1, <1>5, <1>6 DEF RowsLinked, ReturnsMarked, RivalsTainted
<1>9. HasSession' => Current' \in tainted'
  <2>1. (sessions \in Seq(Session))' => (HasSession => Current \in OpenSessions)'
    BY CurrentIsOpen, PTL
  <2> QED BY <1>1, <1>2, <1>5, <1>6, <2>1 DEF RivalsTainted
<1> QED BY <1>7, <1>8, <1>9 DEF DrawerInv, OnlyKnownDrift

\* The sales of a chain the customer still holds.
StandRows(f) == {s \in DOMAIN sales : sales[s].first = f /\ Standing(s)}

\* The totals that stand of a chain of corrections, as rows.
LEMMA PaidRows ==
  CustomerPaidTheTotal <=> \A f \in DOMAIN sales : taken[f] = Total(Totals, StandRows(f))
BY DEF CustomerPaidTheTotal, StandRows

\* ... and after a step.
LEMMA NextPaidRows ==
  CustomerPaidTheTotal' <=> \A f \in DOMAIN sales' : taken'[f] = Total(Totals', StandRows(f)')
BY DEF CustomerPaidTheTotal, StandRows

\* The customer of a sale that is rung pays its total, less what the sale it
\* corrects was paid.
LEMMA RungPaid ==
  ASSUME DrawerInv, CustomerPaidTheTotal, NEW s, NEW row \in SaleRow, Rung(s, row),
         s \in DOMAIN sales => Standing(s) /\ row.first = sales[s].first,
         s \notin DOMAIN sales => row.first = Len(sales) + 1,
         row.status = "completed", ~row.voided,
         \A f \in DOMAIN sales : taken'[f] = taken[f] +
           (IF s \in DOMAIN sales /\ f = row.first THEN row.paid - sales[s].paid ELSE 0),
         taken'[Len(sales) + 1] = IF s \in DOMAIN sales THEN 0 ELSE row.paid
  PROVE  CustomerPaidTheTotal'
<1> DEFINE last == Len(sales')
<1>1. /\ DrawerTypeOK /\ RowsLinked
      /\ sales \in Seq(SaleRow) /\ taken \in Seq(Int) /\ Len(taken) = Len(sales)
      /\ DOMAIN sales = 1 .. Len(sales) /\ Len(sales) \in Nat
  BY DEF DrawerInv, DrawerTypeOK
<1>2. /\ sales' \in Seq(SaleRow) /\ last = Len(sales) + 1
      /\ DOMAIN sales' = DOMAIN sales \union {last}
      /\ sales'[last] = row /\ last \notin DOMAIN sales
      /\ \A k \in DOMAIN sales : SameSale(sales'[k], sales[k])
      /\ \A k \in DOMAIN sales : k # s => sales'[k] = sales[k]
      /\ s \in DOMAIN sales => sales'[s].status = "amended" /\ sales'[s].voided
  BY <1>1, RungRows
<1>3. /\ Totals \in Seq(Int) /\ Len(Totals) = Len(sales)
      /\ \A k \in 1 .. Len(Totals) : Totals[k] = sales[k].paid
  BY <1>1, ColumnsType DEF Columns
<1>4. /\ Totals' \in Seq(Int) /\ Len(Totals') = last
      /\ \A k \in DOMAIN sales' : Totals'[k] = sales'[k].paid
  BY <1>2, NextColumns DEF Columns
<1>5. Len(Totals') = Len(Totals) + 1 /\ Totals'[last] = row.paid
      /\ \A k \in 1 .. Len(Totals) : Totals'[k] = Totals[k]
  <2>1. ASSUME NEW k \in 1 .. Len(Totals)
        PROVE  Totals'[k] = Totals[k]
    <3>1. k \in DOMAIN sales
      BY <1>1, <1>3
    <3>2. SameSale(sales'[k], sales[k]) /\ k \in DOMAIN sales'
      BY <1>2, <3>1
    <3> QED BY <1>3, <1>4, <3>2 DEF SameSale
  <2>2. Totals'[last] = row.paid
    BY <1>2, <1>4
  <2> QED BY <1>2, <1>3, <1>4, <2>1, <2>2
<1>6. row.paid \in Int /\ \A k \in DOMAIN sales : sales[k].paid \in Int /\ taken[k] \in Int
  <2>1. \A k \in DOMAIN sales : sales[k] \in SaleRow
    BY <1>1
  <2>2. row.paid \in Int /\ \A k \in DOMAIN sales : sales[k].paid \in Int
    BY <2>1 DEF SaleRow
  <2>3. \A k \in DOMAIN sales : taken[k] \in Int
    BY <1>1
  <2> QED BY <2>2, <2>3
<1>t. Totals \in Seq(Int) /\ Totals' \in Seq(Int) /\ Len(Totals') = Len(Totals) + 1
  BY <1>3, <1>4, <1>5
<1>7. ASSUME NEW f \in DOMAIN sales
      PROVE  taken'[f] = Total(Totals', StandRows(f)')
  <2> DEFINE S == StandRows(f)
             T == StandRows(f) \ {s}
  <2>1. \A k \in 1 .. Len(Totals) : k \in T <=> k \in StandRows(f)'
    BY <1>1, <1>2, <1>3 DEF StandRows, Standing, SameSale
  <2>2. last \in StandRows(f)' <=> row.first = f
    BY <1>2 DEF StandRows, Standing
  <2>3. s \in S <=> s \in DOMAIN sales /\ row.first = f
    BY DEF StandRows
  <2>4. Total(Totals', StandRows(f)') = Total(Totals, T)
          + (IF last \in StandRows(f)' THEN row.paid ELSE 0)
    <3>1. \A k \in 1 .. Len(Totals) : (k \in T <=> k \in StandRows(f)') /\ Totals'[k] = Totals[k]
      BY <1>5, <2>1
    <3> HIDE DEF S, T, last
    <3>2. Total(Totals', StandRows(f)') = Total(Totals, T)
            + (IF Len(Totals') \in StandRows(f)' THEN Totals'[Len(Totals')] ELSE 0)
      BY ONLY <1>t, <3>1, TotalAppended
    <3> QED BY <1>4, <1>5, <3>2
  <2>5. Total(Totals, T) = Total(Totals, S) - (IF s \in S THEN sales[s].paid ELSE 0)
    <3>1. S \in SUBSET (1 .. Len(Totals))
      BY <1>1, <1>3 DEF StandRows
    <3>3. T \in SUBSET S /\ s \notin T /\ \A k \in S : k # s => k \in T
      OBVIOUS
    <3>2. s \in S => Totals[s] = sales[s].paid
      BY <1>3, <3>1
    <3> HIDE DEF S, T
    <3>5. Totals \in Seq(Int)
      BY <1>t
    <3>4. /\ s \in S => Total(Totals, T) = Total(Totals, S) - Totals[s]
          /\ s \notin S => Total(Totals, T) = Total(Totals, S)
      BY ONLY <3>5, <3>1, <3>3, TotalWithout
    <3>6. Total(Totals, S) \in Int
      BY <3>5, MaskedType
    <3> QED BY ONLY <3>2, <3>4, <3>6
  <2>6. taken[f] = Total(Totals, S)
    BY PaidRows
  <2> HIDE DEF S, T
  <2>7. s \in DOMAIN sales => sales[s].paid \in Int
    BY <1>6
  <2>8. row.first = f => s \in DOMAIN sales
    BY <1>1
  <2> QED BY <1>6, <2>2, <2>3, <2>4, <2>5, <2>6, <2>7, <2>8
<1>8. ASSUME NEW f \in Nat, f = last
      PROVE  taken'[f] = Total(Totals', StandRows(f)')
  <2>1. \A k \in 1 .. Len(Totals) : k \notin StandRows(f)'
    <3> SUFFICES ASSUME NEW k \in 1 .. Len(Totals)
                 PROVE  sales'[k].first # f
      BY <1>2 DEF StandRows
    <3>1. SameSale(sales'[k], sales[k]) /\ sales[k].first \in 1 .. k
      BY <1>1, <1>2, <1>3 DEF RowsLinked
    <3> QED BY <1>1, <1>2, <1>3, <1>8, <3>1 DEF SameSale
  <2>2. last \in StandRows(f)' <=> s \notin DOMAIN sales
    <3>1. s \in DOMAIN sales => row.first # f
      BY <1>1, <1>2, <1>8 DEF RowsLinked
    <3> QED BY <1>2, <1>8, <3>1 DEF StandRows, Standing
  <2>3. Total(Totals', StandRows(f)') = Total(Totals, {})
          + (IF last \in StandRows(f)' THEN row.paid ELSE 0)
    <3>1. \A k \in 1 .. Len(Totals) : (k \in {} <=> k \in StandRows(f)') /\ Totals'[k] = Totals[k]
      BY <1>5, <2>1
    <3> HIDE DEF last
    <3>2. Total(Totals', StandRows(f)') = Total(Totals, {})
            + (IF Len(Totals') \in StandRows(f)' THEN Totals'[Len(Totals')] ELSE 0)
      BY ONLY <1>t, <3>1, TotalAppended
    <3> QED BY <1>4, <1>5, <3>2
  <2>4. Total(Totals, {}) = 0
    BY <1>3, TotalEmpty
  <2>5. taken'[f] = IF s \in DOMAIN sales THEN 0 ELSE row.paid
    BY <1>2, <1>8
  <2> QED BY <1>6, <2>2, <2>3, <2>4, <2>5
<1>9. \A f \in DOMAIN sales' : taken'[f] = Total(Totals', StandRows(f)')
  BY <1>1, <1>2, <1>7, <1>8
<1> QED BY <1>9, NextPaidRows

\* The customer of a sale taken back gets what it stands at.
LEMMA TakenBackPaid ==
  ASSUME DrawerInv, CustomerPaidTheTotal, NEW s \in DOMAIN sales, Standing(s),
         NEW status \in {"completed", "returned"}, TakenBack(s, status),
         \A f \in DOMAIN sales : taken'[f] = taken[f] -
           (IF f = sales[s].first THEN sales[s].paid ELSE 0)
  PROVE  CustomerPaidTheTotal'
<1>1. /\ DrawerTypeOK
      /\ sales \in Seq(SaleRow) /\ taken \in Seq(Int) /\ Len(taken) = Len(sales)
      /\ DOMAIN sales = 1 .. Len(sales) /\ Len(sales) \in Nat
  BY DEF DrawerInv, DrawerTypeOK
<1>2. /\ sales' \in Seq(SaleRow) /\ Len(sales') = Len(sales) /\ DOMAIN sales' = DOMAIN sales
      /\ sales'[s].status = status /\ sales'[s].voided
      /\ \A k \in DOMAIN sales : SameSale(sales'[k], sales[k])
      /\ \A k \in DOMAIN sales : k # s => sales'[k] = sales[k]
  BY <1>1, TakenBackRows
<1>3. /\ Totals \in Seq(Int) /\ Len(Totals) = Len(sales)
      /\ \A k \in 1 .. Len(Totals) : Totals[k] = sales[k].paid
  BY <1>1, ColumnsType DEF Columns
<1>4. /\ Totals' \in Seq(Int) /\ Len(Totals') = Len(Totals)
      /\ \A k \in 1 .. Len(Totals) : Totals'[k] = Totals[k]
  <2>1. /\ Totals' \in Seq(Int) /\ Len(Totals') = Len(sales')
        /\ \A k \in DOMAIN sales' : Totals'[k] = sales'[k].paid
    BY <1>2, NextColumns DEF Columns
  <2>2. ASSUME NEW k \in 1 .. Len(Totals) PROVE Totals'[k] = Totals[k]
    <3>1. k \in DOMAIN sales /\ k \in DOMAIN sales'
      BY <1>1, <1>2, <1>3
    <3>2. Totals'[k] = sales'[k].paid /\ Totals[k] = sales[k].paid
      BY <1>3, <2>1, <3>1
    <3>3. sales'[k].paid = sales[k].paid
      BY <1>2, <3>1 DEF SameSale
    <3> QED BY <3>2, <3>3
  <2>3. Totals' \in Seq(Int) /\ Len(Totals') = Len(Totals)
    BY <1>2, <1>3, <2>1
  <2> QED BY <2>2, <2>3
<1>5. ASSUME NEW f \in DOMAIN sales
      PROVE  taken'[f] = Total(Totals', StandRows(f)')
  <2>1. s \in 1 .. Len(Totals) /\ s \notin StandRows(f)'
    BY <1>1, <1>2, <1>3 DEF StandRows, Standing
  <2>2. s \in StandRows(f) <=> f = sales[s].first
    BY DEF StandRows
  <2>3. \A k \in 1 .. Len(Totals) :
           k # s => (k \in StandRows(f) <=> k \in StandRows(f)') /\ Totals'[k] = Totals[k]
    BY <1>1, <1>2, <1>3, <1>4 DEF StandRows, Standing
  <2>4. Total(Totals', StandRows(f)') = Total(Totals, StandRows(f))
          - (IF s \in StandRows(f) THEN Totals[s] ELSE 0)
          + (IF s \in StandRows(f)' THEN Totals'[s] ELSE 0)
    BY <1>3, <1>4, <2>1, <2>3, TotalChanged
  <2>5. taken[f] = Total(Totals, StandRows(f)) /\ Total(Totals, StandRows(f)) \in Int
    BY <1>3, PaidRows, MaskedType
  <2>6. Totals[s] = sales[s].paid /\ Totals[s] \in Int
    BY <1>3, <2>1
  <2> QED BY <2>1, <2>2, <2>4, <2>5, <2>6
<1> QED BY <1>2, <1>5, NextPaidRows

\* The drawer's invariant with the two properties it carries.
TillInv == DrawerInv /\ OnlyKnownDrift /\ CustomerPaidTheTotal

\* Steps that ring nothing and take nothing back leave what was paid alone.
LEMMA SamePaid ==
  ASSUME CustomerPaidTheTotal, UNCHANGED <<sales, taken>>
  PROVE  CustomerPaidTheTotal'
BY DEF CustomerPaidTheTotal, Totals, Standing

\* A sale brings its cash into the drawer and into its session.
LEMMA RingStep ==
  ASSUME TillInv, NEW m \in Method, NEW a \in Nat, Ring(m, a)
  PROVE  TillInv'
<1> PICK row : row = Row(m, a, 0, Len(sales) + 1)
  OBVIOUS
<1>1. /\ DrawerTypeOK /\ DrawerInv /\ OnlyKnownDrift /\ CustomerPaidTheTotal /\ HasSession
      /\ taken \in Seq(Int) /\ Len(taken) = Len(sales) /\ Len(sales) \in Nat
      /\ DOMAIN sales = 1 .. Len(sales)
  BY DEF TillInv, DrawerInv, DrawerTypeOK, Ring
<1>2. /\ row \in SaleRow /\ row.session = Current /\ row.first = Len(sales) + 1
      /\ row.paid = a /\ row.method = m /\ row.status = "completed" /\ ~row.voided
      /\ m = "Cash" => row.net = a
  <2> PICK prepaid \in Nat, first \in Nat : prepaid = 0 /\ first = Len(sales) + 1
    BY <1>1
  <2>0. DrawerTypeOK /\ HasSession
    BY <1>1
  <2>1. /\ Row(m, a, prepaid, first) \in SaleRow
        /\ Row(m, a, prepaid, first).session = Current
        /\ Row(m, a, prepaid, first).first = first
        /\ Row(m, a, prepaid, first).paid = a
        /\ Row(m, a, prepaid, first).method = m
        /\ Row(m, a, prepaid, first).status = "completed"
        /\ ~Row(m, a, prepaid, first).voided
        /\ m = "Cash" => Row(m, a, prepaid, first).net = a - prepaid
    BY ONLY <2>0, m \in Method, a \in Nat, RowType
  <2> QED BY <2>1
<1>3. Rung(0, row) /\ 0 \notin DOMAIN sales
  BY <1>1 DEF Ring, Rung
<1>4. taken' = Append(taken, a) /\ UNCHANGED <<sessions, returns, opening, tainted>>
      /\ drawer' = drawer + Cash(m, a)
  BY DEF Ring
<1>5. /\ taken' \in Seq(Int) /\ Len(taken') = Len(taken) + 1 /\ taken'[Len(sales) + 1] = a
      /\ \A f \in DOMAIN sales : taken'[f] = taken[f] /\ taken[f] \in Int
  BY <1>1, <1>4
<1>6. Cash(m, a) = Cash(row.method, row.net)
  BY <1>2 DEF Cash
<1>7. DrawerInv' /\ OnlyKnownDrift'
  BY <1>1, <1>2, <1>3, <1>4, <1>5, <1>6, RungKeeps
<1>8. \A f \in DOMAIN sales : taken'[f] = taken[f] +
        (IF 0 \in DOMAIN sales /\ f = row.first THEN row.paid - sales[0].paid ELSE 0)
  BY <1>3, <1>5
<1>9. CustomerPaidTheTotal'
  BY <1>1, <1>2, <1>3, <1>5, <1>8, RungPaid
<1> QED BY <1>7, <1>9 DEF TillInv

\* A correction moves the difference only, and the sale it replaces keeps its net.
LEMMA AmendStep ==
  ASSUME TillInv, NEW s \in DOMAIN sales, NEW m \in Method, NEW a \in Nat, Amend(s, m, a)
  PROVE  TillInv'
<1> PICK row : row = Row(m, a, sales[s].paid, sales[s].first)
  OBVIOUS
<1>1. /\ DrawerTypeOK /\ DrawerInv /\ OnlyKnownDrift /\ CustomerPaidTheTotal /\ HasSession
      /\ RowsLinked /\ Standing(s)
      /\ taken \in Seq(Int) /\ Len(taken) = Len(sales) /\ Len(sales) \in Nat
      /\ DOMAIN sales = 1 .. Len(sales) /\ sales[s] \in SaleRow
  BY DEF TillInv, DrawerInv, DrawerTypeOK, Amend
<1>2. sales[s].paid \in Nat /\ sales[s].first \in 1 .. s /\ sales[s].first \in Nat
      /\ sales[s].first \in DOMAIN sales /\ sales[s].first \in 1 .. Len(sales) + 1
  BY <1>1 DEF RowsLinked, SaleRow
<1>3. /\ row \in SaleRow /\ row.session = Current /\ row.first = sales[s].first
      /\ row.paid = a /\ row.method = m /\ row.status = "completed" /\ ~row.voided
      /\ m = "Cash" => row.net = a - sales[s].paid
  <2> PICK prepaid \in Nat, first \in Nat : prepaid = sales[s].paid /\ first = sales[s].first
    BY <1>2
  <2>0. DrawerTypeOK /\ HasSession
    BY <1>1
  <2>1. /\ Row(m, a, prepaid, first) \in SaleRow
        /\ Row(m, a, prepaid, first).session = Current
        /\ Row(m, a, prepaid, first).first = first
        /\ Row(m, a, prepaid, first).paid = a
        /\ Row(m, a, prepaid, first).method = m
        /\ Row(m, a, prepaid, first).status = "completed"
        /\ ~Row(m, a, prepaid, first).voided
        /\ m = "Cash" => Row(m, a, prepaid, first).net = a - prepaid
    BY ONLY <2>0, m \in Method, a \in Nat, RowType
  <2> QED BY <2>1
<1>4. Rung(s, row)
  BY <1>1 DEF Amend, Rung, Marked, Prepaid
<1>5. /\ taken' = [Append(taken, 0) EXCEPT ![sales[s].first] = @ + (a - sales[s].paid)]
      /\ drawer' = drawer + Cash(m, a - sales[s].paid)
      /\ UNCHANGED <<sessions, returns, opening, tainted>>
  BY DEF Amend, Prepaid
<1>6. /\ taken' \in Seq(Int) /\ Len(taken') = Len(taken) + 1
      /\ \A f \in 1 .. Len(sales) + 1 : taken'[f] =
           IF f = sales[s].first THEN Append(taken, 0)[f] + (a - sales[s].paid) ELSE Append(taken, 0)[f]
      /\ Append(taken, 0)[Len(sales) + 1] = 0
      /\ \A f \in DOMAIN sales : Append(taken, 0)[f] = taken[f] /\ taken[f] \in Int
  <2> PICK longer : longer = Append(taken, 0)
    OBVIOUS
  <2>1. /\ longer \in Seq(Int) /\ Len(longer) = Len(taken) + 1 /\ DOMAIN longer = 1 .. Len(sales) + 1
        /\ longer[Len(sales) + 1] = 0
        /\ \A f \in DOMAIN sales : longer[f] = taken[f] /\ taken[f] \in Int
    BY <1>1
  <2>2. taken' = [longer EXCEPT ![sales[s].first] = @ + (a - sales[s].paid)]
    BY <1>5
  <2>3. sales[s].first \in DOMAIN longer /\ longer[sales[s].first] + (a - sales[s].paid) \in Int
    BY <1>1, <1>2, <2>1
  <2>4. taken' \in Seq(Int) /\ Len(taken') = Len(longer)
    BY <2>1, <2>2, <2>3
  <2>5. \A f \in 1 .. Len(sales) + 1 : taken'[f] =
           IF f = sales[s].first THEN longer[f] + (a - sales[s].paid) ELSE longer[f]
    BY <2>1, <2>2, <2>3
  <2> QED BY <2>1, <2>4, <2>5
<1>7. Cash(m, a - sales[s].paid) = Cash(row.method, row.net)
  BY <1>3 DEF Cash
<1>8. ~(row.first = Len(sales) + 1)
  BY <1>1, <1>2, <1>3
<1>9. DrawerInv' /\ OnlyKnownDrift'
  BY <1>1, <1>2, <1>3, <1>4, <1>5, <1>6, <1>7, <1>8, RungKeeps
<1>10. \A f \in DOMAIN sales : taken'[f] = taken[f] +
        (IF s \in DOMAIN sales /\ f = row.first THEN row.paid - sales[s].paid ELSE 0)
  BY <1>1, <1>2, <1>3, <1>6
<1>11. taken'[Len(sales) + 1] = 0
  <2>1. Len(sales) + 1 \in 1 .. Len(sales) + 1 /\ Len(sales) + 1 # sales[s].first
    BY <1>1, <1>2
  <2> QED BY <1>6, <2>1
<1>12. CustomerPaidTheTotal'
  BY <1>1, <1>3, <1>4, <1>10, <1>11, RungPaid
<1> QED BY <1>9, <1>12 DEF TillInv

\* What a return and a void say of the money the customer has paid.
LEMMA GivenBack ==
  ASSUME DrawerInv, NEW s \in DOMAIN sales,
         taken' = [taken EXCEPT ![sales[s].first] = @ - sales[s].paid]
  PROVE  /\ taken' \in Seq(Int) /\ Len(taken') = Len(taken)
         /\ \A f \in DOMAIN sales : taken'[f] = taken[f] -
              (IF f = sales[s].first THEN sales[s].paid ELSE 0)
         /\ Cash(sales[s].method, sales[s].paid) \in Int
<1>1. /\ taken \in Seq(Int) /\ Len(taken) = Len(sales) /\ DOMAIN sales = 1 .. Len(sales)
      /\ sales[s].first \in 1 .. s /\ sales[s] \in SaleRow
  BY DEF DrawerInv, DrawerTypeOK, RowsLinked
<1>2. sales[s].first \in DOMAIN taken /\ sales[s].paid \in Int
  BY <1>1 DEF SaleRow
<1> QED BY <1>1, <1>2 DEF Cash

\* A return gives the customer back what they paid.
LEMMA ReturnStep ==
  ASSUME TillInv, NEW s \in DOMAIN sales, ReturnSale(s)
  PROVE  TillInv'
<1>1. /\ DrawerTypeOK /\ DrawerInv /\ OnlyKnownDrift /\ CustomerPaidTheTotal /\ HasSession
      /\ Standing(s) /\ TakenBack(s, "returned") /\ drawer \in Int /\ tainted \subseteq DOMAIN sessions
      /\ returns' = returns \union {[sale |-> s, session |-> Current]}
      /\ taken' = [taken EXCEPT ![sales[s].first] = @ - sales[s].paid]
      /\ drawer' = drawer - Cash(sales[s].method, sales[s].paid)
      /\ tainted' = IF Corrected(s) /\ sales[s].method = "Cash" THEN tainted \union {Current} ELSE tainted
      /\ UNCHANGED <<sessions, opening>>
  BY DEF TillInv, DrawerInv, DrawerTypeOK, ReturnSale, TakenBack, Marked
<1>2. /\ taken' \in Seq(Int) /\ Len(taken') = Len(taken)
      /\ \A f \in DOMAIN sales : taken'[f] = taken[f] -
           (IF f = sales[s].first THEN sales[s].paid ELSE 0)
      /\ Cash(sales[s].method, sales[s].paid) \in Int
  BY <1>1, GivenBack
<1>3. tainted \subseteq tainted' /\ tainted' \subseteq DOMAIN sessions /\ drawer' \in Int
  BY <1>1, <1>2, CurrentOpen DEF DrawerTypeOK
<1>4. Current \notin tainted' /\ sales[s].method = "Cash" => sales[s].first = s
  BY <1>1 DEF Corrected
<1>5. returns' # returns
  <2>1. ~ReturnedSale(s)
    BY <1>1, StandingKept DEF DrawerInv
  <2>2. [sale |-> s, session |-> Current] \in returns' /\ [sale |-> s, session |-> Current].sale = s
    BY <1>1
  <2> QED BY <2>1, <2>2 DEF ReturnedSale
<1>6. DrawerInv' /\ OnlyKnownDrift'
  BY <1>1, <1>2, <1>3, <1>4, <1>5, TakenBackKeeps
<1>7. CustomerPaidTheTotal'
  BY <1>1, <1>2, TakenBackPaid
<1> QED BY <1>6, <1>7 DEF TillInv

\* So does a void, whichever session rang the sale.
LEMMA VoidStep ==
  ASSUME TillInv, NEW s \in DOMAIN sales, VoidSale(s)
  PROVE  TillInv'
<1>1. /\ DrawerTypeOK /\ DrawerInv /\ OnlyKnownDrift /\ CustomerPaidTheTotal
      /\ Standing(s) /\ drawer \in Int /\ tainted \subseteq DOMAIN sessions
      /\ sales' = [sales EXCEPT ![s].voided = TRUE]
      /\ returns' = returns
      /\ taken' = [taken EXCEPT ![sales[s].first] = @ - sales[s].paid]
      /\ drawer' = IF HasSession THEN drawer - Cash(sales[s].method, sales[s].paid) ELSE drawer
      /\ tainted' = IF HasSession /\ sales[s].method = "Cash"
                         /\ (Corrected(s) \/ sales[s].session # Current)
                    THEN tainted \union {Current} \union ({sales[s].session} \intersect OpenSessions)
                    ELSE tainted
      /\ UNCHANGED <<sessions, opening>>
  BY DEF TillInv, DrawerInv, DrawerTypeOK, VoidSale
<1>2. TakenBack(s, "completed")
  <2>1. sales \in Seq(SaleRow) /\ sales[s] \in SaleRow /\ sales[s].status = "completed"
    BY <1>1 DEF DrawerTypeOK, Standing
  <2>2. [sales[s] EXCEPT !.status = "completed"] = sales[s]
    BY <2>1 DEF SaleRow
  <2>3. [sales EXCEPT ![s].status = "completed"] = sales
    BY <2>1, <2>2
  <2> QED BY <1>1, <2>3 DEF TakenBack, Marked
<1>3. /\ taken' \in Seq(Int) /\ Len(taken') = Len(taken)
      /\ \A f \in DOMAIN sales : taken'[f] = taken[f] -
           (IF f = sales[s].first THEN sales[s].paid ELSE 0)
      /\ Cash(sales[s].method, sales[s].paid) \in Int
  BY <1>1, GivenBack
<1>4. tainted \subseteq tainted' /\ tainted' \subseteq DOMAIN sessions /\ drawer' \in Int
  <2>1. OpenSessions \subseteq DOMAIN sessions
    BY DEF OpenSessions
  <2> QED BY <1>1, <1>3, <2>1, CurrentOpen DEF DrawerTypeOK
<1>5. HasSession /\ Current \notin tainted' /\ sales[s].method = "Cash" =>
        sales[s].first = s /\ sales[s].session = Current
  BY <1>1 DEF Corrected
<1>6. DrawerInv' /\ OnlyKnownDrift'
  BY <1>1, <1>2, <1>3, <1>4, <1>5, TakenBackKeeps
<1>7. CustomerPaidTheTotal'
  BY <1>1, <1>2, <1>3, TakenBackPaid
<1> QED BY <1>6, <1>7 DEF TillInv

\* Every step keeps rows, drawer and customer in step.
LEMMA TillStep == TillInv /\ [DrawerNext]_drawerVars => TillInv'
<1> SUFFICES ASSUME TillInv, [DrawerNext]_drawerVars
             PROVE  TillInv'
  OBVIOUS
<1> USE DrawerAssumption
<1>1. CASE UNCHANGED drawerVars \/ AskToOpen
  <2>1. UNCHANGED <<sessions, sales, returns, drawer, taken, tainted>> /\ opening' \in Nat
    BY <1>1 DEF drawerVars, AskToOpen, TillInv, DrawerInv, DrawerTypeOK
  <2>2. DrawerInv'
    BY <2>1, SameSessions
       DEF TillInv, DrawerInv, DrawerTypeOK, RowsLinked, ReturnsMarked, RivalsTainted
  <2>3. OnlyKnownDrift'
    BY <2>1 DEF TillInv, OnlyKnownDrift, HasSession, Current, OpenSessions, Expected, CashIn,
                Refunded, Voided, Nets, CashSales, ReturnedSale
  <2> QED BY <2>1, <2>2, <2>3, SamePaid DEF TillInv
<1>2. CASE CloseSession
  <2>1. UNCHANGED <<sales, taken>>
    BY <1>2 DEF CloseSession
  <2> QED BY <1>2, <2>1, CloseKeeps, SamePaid DEF TillInv
<1>3. ASSUME NEW f \in Amount, OpenSession(f)
      PROVE  TillInv'
  <2>1. UNCHANGED <<sales, taken>> /\ f \in Nat
    BY <1>3 DEF OpenSession
  <2> QED BY <1>3, <2>1, OpenKeeps, SamePaid DEF TillInv
<1>a. Due \subseteq Nat
  BY DEF Due
<1>4. ASSUME NEW m \in Method, NEW a \in Due, Ring(m, a)
      PROVE  TillInv'
  BY <1>a, <1>4, RingStep
<1>5. ASSUME NEW s \in DOMAIN sales, NEW m \in Method, NEW a \in Due, Amend(s, m, a)
      PROVE  TillInv'
  BY <1>a, <1>5, AmendStep
<1> QED BY <1>1, <1>2, <1>3, <1>4, <1>5, ReturnStep, VoidStep DEF DrawerNext

\* The inductive invariant: sales name their sessions, returns are of returned
\* sales, two sessions open at once are both tainted, and the rows account for
\* the drawer and for what the customer paid (pos.py, close_session).
THEOREM TillCorrect == DrawerSpec => []TillInv
<1>1. DrawerInit => TillInv
  BY DrawerInitial DEF TillInv
<1> QED BY <1>1, TillStep, PTL DEF DrawerSpec

\* Every table of the drawer keeps its type (pos.py, the register sessions).
THEOREM DrawerTypeCorrect == DrawerSpec => []DrawerTypeOK
<1>1. TillInv => DrawerTypeOK
  BY DEF TillInv, DrawerInv
<1> QED BY <1>1, TillCorrect, PTL

\* The drawer of the open session holds what its rows say, whatever mix of
\* sales, corrections, returns and voids there was, outside the listed cases
\* (pos.py, the expected count of close_session).
THEOREM DriftCorrect == DrawerSpec => []OnlyKnownDrift
<1>1. TillInv => OnlyKnownDrift
  BY DEF TillInv
<1> QED BY <1>1, TillCorrect, PTL

\* What the customer has paid, over any number of corrections, is what the
\* standing sale asked for at the till, and nothing once it is taken back
\* (pos.py, amend_sale's prepaid).
THEOREM PaidCorrect == DrawerSpec => []CustomerPaidTheTotal
<1>1. TillInv => CustomerPaidTheTotal
  BY DEF TillInv
<1> QED BY <1>1, TillCorrect, PTL
=============================================================================
