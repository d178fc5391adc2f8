---------------------------- MODULE Shop_proofs ----------------------------
(***************************************************************************)
(* What holds of the shop floor for every set of items, customers and      *)
(* purchases and every bound: type correctness, and the safety invariants  *)
(* that relate the counter, the holds, the promises and the purchases.     *)
(*                                                                         *)
(* Each operator of the stock tables is shown once to keep what the        *)
(* invariants say of its argument; an action is a composition of them.     *)
(***************************************************************************)
EXTENDS Shop, Sums_proofs

\* The stock tables with rows of their types.
TablesType ==
  [quantity : [Item -> Nat], reserved : [Item -> Nat], holds : Seq(Hold),
   commitments : Seq(Commitment), sales : Seq(Sale)]
-----------------------------------------------------------------------------
\* Type correctness of the operators.

\* Clipping at zero and the smaller of two numbers, on integers.
LEMMA ClipType ==
  ASSUME NEW x \in Int, NEW y \in Int
  PROVE  /\ AtLeastZero(x) \in Nat
         /\ Lesser(x, y) \in {x, y}
         /\ Lesser(x, y) <= x
         /\ Lesser(x, y) <= y
BY DEF AtLeastZero, Lesser

\* The rows of one item, read for some customers, are a sequence of counts.
LEMMA HeldRowsType ==
  ASSUME NEW t \in TablesType, NEW i, NEW who
  PROVE  /\ HeldRows(t, i, who) \in Seq(Nat)
         /\ HeldRows(t, i, who) \in Seq(Int)
         /\ Len(HeldRows(t, i, who)) = Len(t.holds)
         /\ DOMAIN HeldRows(t, i, who) = 1 .. Len(t.holds)
<1>1. t.holds \in Seq(Hold)
  BY DEF TablesType
<1>2. \A h \in 1 .. Len(t.holds) : t.holds[h].quantity \in Nat
  <2>1. ASSUME NEW h \in 1 .. Len(t.holds) PROVE t.holds[h] \in Hold
    BY <1>1
  <2> QED BY <2>1 DEF Hold
<1> QED BY <1>1, <1>2 DEF HeldRows

\* What customers hold is a count.
LEMMA HeldNat ==
  ASSUME NEW t \in TablesType, NEW i, NEW who
  PROVE  SeqSum(HeldRows(t, i, who)) \in Nat
BY HeldRowsType, SumNat

\* Rewriting the counter from the rows keeps it a count.
LEMMA SyncType ==
  ASSUME NEW t \in TablesType, NEW i \in Item, NEW production \in Nat
  PROVE  Sync(t, i, production) \in TablesType
<1>1. CustomerHeld(t, i) \in Nat
  BY HeldNat DEF CustomerHeld
<1>2. production + CustomerHeld(t, i) \in Nat
  BY <1>1
<1> QED BY <1>2 DEF Sync, TablesType

\* Production's share is a count, whatever the counter says.
LEMMA ShareNat ==
  ASSUME NEW t \in TablesType, NEW i \in Item
  PROVE  ProductionShare(t, i) \in Nat
<1>1. CustomerHeld(t, i) \in Nat
  BY HeldNat DEF CustomerHeld
<1>2. t.reserved[i] \in Nat
  BY DEF TablesType
<1>3. t.reserved[i] - CustomerHeld(t, i) \in Int
  BY <1>1, <1>2
<1> QED BY <1>3, ClipType DEF ProductionShare

\* A hold that is placed is a row of its type.
LEMMA PlaceHoldType ==
  ASSUME NEW t \in TablesType, NEW i \in Item, NEW c \in Client, NEW q \in Nat \ {0}
  PROVE  PlaceHold(t, i, c, q) \in TablesType
<1> DEFINE row == [item |-> i, client |-> c, quantity |-> q, status |-> "held"]
           u == [t EXCEPT !.holds = Append(@, row)]
<1>1. row \in Hold
  BY DEF Hold, HoldStatus
<1>2. u \in TablesType
  <2>1. t.holds \in Seq(Hold)
    BY DEF TablesType
  <2> HIDE DEF row
  <2>2. Append(t.holds, row) \in Seq(Hold)
    BY <1>1, <2>1
  <2> QED BY <2>2 DEF TablesType
<1> HIDE DEF u
<1> QED BY <1>2, ShareNat, SyncType DEF PlaceHold, u

\* So is a hold that is closed, and the counter stays a count.
LEMMA CloseType ==
  ASSUME NEW t \in TablesType, NEW h \in DOMAIN t.holds, NEW status \in HoldStatus
  PROVE  Close(t, h, status) \in TablesType
<1> DEFINE u == [t EXCEPT !.holds[h].status = status]
<1>1. t.holds \in Seq(Hold)
  BY DEF TablesType
<1>2. t.holds[h] \in Hold
  BY <1>1
<1>3. [t.holds[h] EXCEPT !.status = status] \in Hold
  BY <1>2 DEF Hold
<1>4. [t.holds EXCEPT ![h].status = status] \in Seq(Hold)
  BY <1>1, <1>3
<1>5. u \in TablesType
  BY <1>4 DEF TablesType
<1>6. t.holds[h].item \in Item
  BY <1>2 DEF Hold
<1> HIDE DEF u
<1> QED BY <1>5, <1>6, ShareNat, SyncType DEF Close, u

\* What is drawn of a row is a count, and no more than the row keeps aside.
LEMMA DrawnType ==
  ASSUME NEW t \in TablesType, NEW i, NEW c, NEW q \in Int
  PROVE  /\ DOMAIN Drawn(t, i, c, q) = 1 .. Len(t.holds)
         /\ \A h \in 1 .. Len(t.holds) :
              /\ Drawn(t, i, c, q)[h] \in Nat
              /\ Drawn(t, i, c, q)[h] <= HeldRows(t, i, {c})[h]
<1> DEFINE mine == HeldRows(t, i, {c})
<1>1. mine \in Seq(Nat) /\ mine \in Seq(Int) /\ Len(mine) = Len(t.holds)
  BY HeldRowsType
<1>2. DOMAIN Drawn(t, i, c, q) = 1 .. Len(t.holds)
  <2>1. t.holds \in Seq(Hold)
    BY DEF TablesType
  <2> QED BY <2>1 DEF Drawn
<1>3. ASSUME NEW h \in 1 .. Len(t.holds)
      PROVE  /\ Drawn(t, i, c, q)[h] \in Nat
             /\ Drawn(t, i, c, q)[h] <= mine[h]
  <2> HIDE DEF mine
  <2>1. mine[h] \in Nat
    BY <1>1
  <2>2. SumTo(mine, h - 1) \in Int
    <3>1. h - 1 \in 0 .. Len(mine)
      BY <1>1
    <3> QED BY <1>1, <3>1, SumToDef
  <2>3. AtLeastZero(q - SumTo(mine, h - 1)) \in Nat
    <3>1. q - SumTo(mine, h - 1) \in Int
      BY <2>2
    <3> QED BY <3>1 DEF AtLeastZero
  <2>4. t.holds \in Seq(Hold)
    BY DEF TablesType
  <2>5. Drawn(t, i, c, q)[h] = Lesser(mine[h], AtLeastZero(q - SumTo(mine, h - 1)))
    BY <2>4 DEF Drawn, mine
  <2> QED BY <2>1, <2>3, <2>5 DEF Lesser
<1> QED BY <1>2, <1>3

\* A row may be drawn by what it keeps aside and no more.
LEMMA DrawType ==
  ASSUME NEW row \in Hold, NEW n \in Nat, n <= row.quantity, NEW status \in HoldStatus
  PROVE  Draw(row, n, status) \in Hold
<1>1. row.quantity \in Nat \ {0}
  BY DEF Hold
<1>2. CASE n = 0
  BY <1>2 DEF Draw
<1>3. CASE n # 0 /\ n = row.quantity
  BY <1>3 DEF Draw, Hold
<1>4. CASE n # 0 /\ n # row.quantity
  <2>1. row.quantity - n \in Nat \ {0}
    BY <1>1, <1>4
  <2> QED BY <1>4, <2>1 DEF Draw, Hold
<1> QED BY <1>2, <1>3, <1>4

\* The rows after a consumption.
LEMMA DrawnRowsType ==
  ASSUME NEW t \in TablesType, NEW i, NEW c, NEW q \in Int, NEW status \in HoldStatus
  PROVE  [h \in DOMAIN t.holds |-> Draw(t.holds[h], Drawn(t, i, c, q)[h], status)] \in Seq(Hold)
<1>1. t.holds \in Seq(Hold)
  BY DEF TablesType
<1>2. ASSUME NEW h \in 1 .. Len(t.holds)
      PROVE  Draw(t.holds[h], Drawn(t, i, c, q)[h], status) \in Hold
  <2>1. t.holds[h] \in Hold
    BY <1>1
  <2>2. HeldRows(t, i, {c})[h] <= t.holds[h].quantity
    <3>1. t.holds[h].quantity \in Nat
      BY <2>1 DEF Hold
    <3> QED BY <1>1, <3>1 DEF HeldRows
  <2>3. Drawn(t, i, c, q)[h] \in Nat /\ Drawn(t, i, c, q)[h] <= HeldRows(t, i, {c})[h]
    BY DrawnType
  <2>4. HeldRows(t, i, {c})[h] \in Nat /\ t.holds[h].quantity \in Nat
    <3>1. t.holds[h].quantity \in Nat
      BY <2>1 DEF Hold
    <3> QED BY <3>1, HeldRowsType
  <2>5. Drawn(t, i, c, q)[h] <= t.holds[h].quantity
    BY <2>2, <2>3, <2>4
  <2> QED BY <2>1, <2>3, <2>5, DrawType
<1> QED BY <1>1, <1>2

\* Drawing a customer's holds keeps the tables of their types.
LEMMA ConsumeType ==
  ASSUME NEW t \in TablesType, NEW i \in Item, NEW c, NEW q \in Int, NEW status \in HoldStatus
  PROVE  Consume(t, i, c, q, status) \in TablesType
<1> DEFINE rows == [h \in DOMAIN t.holds |-> Draw(t.holds[h], Drawn(t, i, c, q)[h], status)]
           u == [t EXCEPT !.holds = rows]
<1>1. rows \in Seq(Hold)
  BY DrawnRowsType
<1>2. u \in TablesType
  <2> HIDE DEF rows
  <2> QED BY <1>1 DEF TablesType
<1>3. Sync(u, i, ProductionShare(t, i)) \in TablesType
  <2> HIDE DEF u
  <2> QED BY <1>2, ShareNat, SyncType
<1> QED BY <1>3 DEF Consume

\* A promise of a positive quantity to a customer is a row of its type.
LEMMA PromiseType ==
  ASSUME NEW t \in TablesType, NEW s \in Nat \ {0}, NEW i \in Item, NEW c \in Client,
         NEW q \in Nat \ {0}
  PROVE  Promise(t, s, i, c, q) \in TablesType
<1> DEFINE row == [sale |-> s, item |-> i, client |-> c, ordered |-> q,
                   fulfilled |-> 0, allocated |-> 0, status |-> "awaiting"]
<1>1. row \in Commitment
  BY DEF Commitment, CommitmentStatus
<1>2. t.commitments \in Seq(Commitment)
  BY DEF TablesType
<1>3. Append(t.commitments, row) \in Seq(Commitment)
  <2> HIDE DEF row
  <2> QED BY <1>1, <1>2
<1>4. [t EXCEPT !.commitments = Append(@, row)] \in TablesType
  <2> HIDE DEF row
  <2> QED BY <1>3 DEF TablesType
<1> QED BY <1>4 DEF Promise

\* A row of the table of promises, rewritten.
LEMMA CommitmentRow ==
  ASSUME NEW t \in TablesType, NEW k \in DOMAIN t.commitments
  PROVE  /\ k \in Nat
         /\ t.commitments[k] \in Commitment
         /\ t.commitments[k].item \in Item
         /\ t.commitments[k].client \in Client
         /\ t.commitments[k].sale \in Nat \ {0}
         /\ t.commitments[k].ordered \in Nat \ {0}
         /\ t.commitments[k].fulfilled \in Nat
         /\ t.commitments[k].allocated \in Nat
         /\ \A row \in Commitment :
              [t EXCEPT !.commitments[k] = row] \in TablesType
<1>1. t.commitments \in Seq(Commitment)
  BY DEF TablesType
<1>2. t.commitments[k] \in Commitment /\ k \in Nat
  BY <1>1
<1>3. ASSUME NEW row \in Commitment
      PROVE  [t EXCEPT !.commitments[k] = row] \in TablesType
  <2>1. [t.commitments EXCEPT ![k] = row] \in Seq(Commitment)
    BY <1>1
  <2> QED BY <2>1 DEF TablesType
<1> QED BY <1>2, <1>3 DEF Commitment

\* The consumption and the placing of holds leave everything but the counter
\* and the rows alone.
LEMMA HoldsOnly ==
  ASSUME NEW t \in TablesType
  PROVE  /\ \A i, c, q, status : /\ Consume(t, i, c, q, status).quantity = t.quantity
                                 /\ Consume(t, i, c, q, status).commitments = t.commitments
                                 /\ Consume(t, i, c, q, status).sales = t.sales
         /\ \A i, c, q : /\ PlaceHold(t, i, c, q).quantity = t.quantity
                         /\ PlaceHold(t, i, c, q).commitments = t.commitments
                         /\ PlaceHold(t, i, c, q).sales = t.sales
         /\ \A h, status : /\ Close(t, h, status).quantity = t.quantity
                           /\ Close(t, h, status).commitments = t.commitments
                           /\ Close(t, h, status).sales = t.sales
<1>1. \A i, c, q, status : /\ Consume(t, i, c, q, status).quantity = t.quantity
                           /\ Consume(t, i, c, q, status).commitments = t.commitments
                           /\ Consume(t, i, c, q, status).sales = t.sales
  BY DEF Consume, Sync, TablesType
<1>2. \A i, c, q : /\ PlaceHold(t, i, c, q).quantity = t.quantity
                   /\ PlaceHold(t, i, c, q).commitments = t.commitments
                   /\ PlaceHold(t, i, c, q).sales = t.sales
  BY DEF PlaceHold, Sync, TablesType
<1>3. \A h, status : /\ Close(t, h, status).quantity = t.quantity
                     /\ Close(t, h, status).commitments = t.commitments
                     /\ Close(t, h, status).sales = t.sales
  BY DEF Close, Sync, TablesType
<1> QED BY <1>1, <1>2, <1>3

\* Serving one promise keeps the types, and adds or drops no promise.
LEMMA ServeType ==
  ASSUME NEW t \in TablesType, NEW k \in DOMAIN t.commitments
  PROVE  /\ Serve(t, k) \in TablesType
         /\ DOMAIN Serve(t, k).commitments = DOMAIN t.commitments
<1> DEFINE row == t.commitments[k]
           take == Lesser(Want(t, k), Available(t, row.item))
           u == PlaceHold(t, row.item, row.client, take)
<1>1. /\ row \in Commitment /\ row.item \in Item /\ row.client \in Client
      /\ row.ordered \in Nat /\ row.fulfilled \in Nat /\ row.allocated \in Nat
  BY CommitmentRow
<1>2. take \in Int
  <2>1. Want(t, k) \in Int
    BY <1>1 DEF Want, Outstanding
  <2>2. Available(t, row.item) \in Int
    BY <1>1 DEF Available, TablesType
  <2> QED BY <2>1, <2>2 DEF Lesser
<1>3. CASE take > 0
  <2>1. take \in Nat \ {0}
    <3> HIDE DEF take
    <3> QED BY <1>2, <1>3
  <2>2. u \in TablesType
    <3> HIDE DEF take
    <3> QED BY <1>1, <2>1, PlaceHoldType
  <2>3. u.commitments = t.commitments
    BY <1>1, HoldsOnly
  <2> DEFINE more == [row EXCEPT !.allocated = @ + take]
  <2>4. more \in Commitment
    <3>1. row.allocated + take \in Nat
      <4> HIDE DEF take
      <4> QED BY <1>1, <2>1
    <3> HIDE DEF take
    <3> QED BY <1>1, <3>1 DEF Commitment
  <2>5. Serve(t, k) = [u EXCEPT !.commitments[k] = more]
    BY <1>3, <2>3 DEF Serve
  <2>6. Serve(t, k) \in TablesType
    <3> HIDE DEF more, u
    <3> QED BY <2>2, <2>3, <2>4, <2>5, CommitmentRow
  <2>7. DOMAIN Serve(t, k).commitments = DOMAIN u.commitments
    <3> HIDE DEF more, u
    <3> QED BY <2>2, <2>5 DEF TablesType
  <2> QED BY <2>3, <2>6, <2>7
<1>4. CASE ~(take > 0)
  BY <1>4 DEF Serve
<1> QED BY <1>3, <1>4

\* The turns of the loop of allocate(): each starts from where the one before
\* left the tables, and the last one leaves what allocate() returns.
LEMMA AllocateTurns ==
  ASSUME NEW t \in TablesType, NEW i
  PROVE  \E f :
           /\ f[0] = t
           /\ f[Len(t.commitments)] = Allocate(t, i)
           /\ \A k \in 0 .. Len(t.commitments) :
                /\ f[k] \in TablesType
                /\ DOMAIN f[k].commitments = DOMAIN t.commitments
           /\ \A k \in 1 .. Len(t.commitments) :
                f[k] = IF k \in OpenFor(t, i) THEN Serve(f[k - 1], k) ELSE f[k - 1]
<1> DEFINE N == Len(t.commitments)
           S == {x \in TablesType : DOMAIN x.commitments = DOMAIN t.commitments}
           Turn(x, k) == IF k \in OpenFor(t, i) THEN Serve(x, k) ELSE x
           step == [k \in 0 .. N |-> [x \in S |-> IF k = 0 THEN t ELSE Turn(x, k)]]
           Body(g) == [k \in 0 .. N |-> IF k = 0 THEN t
                                        ELSE IF k \in OpenFor(t, i) THEN Serve(g[k - 1], k)
                                        ELSE g[k - 1]]
           served == CHOOSE g : g = Body(g)
<1>0. t.commitments \in Seq(Commitment)
  BY DEF TablesType
<1>1. N \in Nat /\ DOMAIN t.commitments = 1 .. N
  BY <1>0
<1>2. t \in S
  OBVIOUS
<1>3. ASSUME NEW k \in 0 .. N, NEW x \in S PROVE step[k][x] \in S
  <2>1. CASE k = 0
    BY <1>2, <2>1
  <2>2. CASE k # 0
    <3>1. k \in DOMAIN x.commitments
      BY <1>1, <2>2
    <3>2. Serve(x, k) \in S
      BY <3>1, ServeType
    <3>3. Turn(x, k) \in S
      BY <3>2
    <3> HIDE DEF Turn
    <3> QED BY <2>2, <3>3
  <2> QED BY <2>1, <2>2
<1>4. PICK f : Recursive(f, N, S, t, step)
  <2> HIDE DEF N, S, step
  <2> QED BY <1>1, <1>2, <1>3, Recursion, Zenon
<1>5. /\ f \in [0 .. N -> S]
      /\ f[0] = t
      /\ \A n \in 0 .. N : n # 0 => f[n] = step[n][f[n - 1]]
  <2> HIDE DEF N, S, step
  <2> QED BY <1>4 DEF Recursive
<1>6. ASSUME NEW n \in 0 .. N, n # 0
      PROVE  f[n] = Turn(f[n - 1], n)
  <2>1. n - 1 \in 0 .. N
    BY <1>1, <1>6
  <2>2. f[n - 1] \in S
    <3> HIDE DEF S, N
    <3> QED BY <1>5, <2>1
  <2>3. f[n] = step[n][f[n - 1]]
    <3> HIDE DEF S, N, step
    <3> QED BY <1>5, <1>6
  <2> HIDE DEF S, N, Turn
  <2> QED BY <2>2, <2>3, <1>6
<1>7. f = Body(f)
  <2>1. \A n \in 0 .. N : f[n] = IF n = 0 THEN t ELSE Turn(f[n - 1], n)
    <3> HIDE DEF S, N, Turn, step
    <3> QED BY <1>5, <1>6
  <2>2. f = [n \in 0 .. N |-> IF n = 0 THEN t ELSE Turn(f[n - 1], n)]
    <3> HIDE DEF S, N, Turn, step
    <3> QED BY <1>5, <2>1
  <2> HIDE DEF N
  <2> QED BY <2>2
<1>8. served = Body(served)
  <2> HIDE DEF Body
  <2> QED BY <1>7
<1>9. Allocate(t, i) = served[N]
  BY DEF Allocate
<1> HIDE DEF served
<1>10. /\ served[0] = t
       /\ \A k \in 1 .. N : served[k] = Turn(served[k - 1], k)
  <2>1. \A k \in 0 .. N : served[k] = IF k = 0 THEN t ELSE Turn(served[k - 1], k)
    <3> HIDE DEF N
    <3> QED BY <1>8
  <2> HIDE DEF Turn
  <2> QED BY <1>1, <2>1
<1>11. \A k \in 0 .. N : served[k] \in S
  <2> DEFINE G == {n \in 0 .. N : served[n] \in S}
  <2>1. 0 \in G
    BY <1>1, <1>2, <1>10
  <2>2. ASSUME NEW n \in 0 .. N, n # N, n \in G PROVE n + 1 \in G
    <3>1. n + 1 \in 1 .. N /\ (n + 1) - 1 = n /\ n + 1 \in 0 .. N /\ n + 1 # 0
      <4> HIDE DEF G
      <4> QED BY <1>1, <2>2
    <3>2. served[n] \in S
      BY <2>2
    <3>3. served[n + 1] = Turn(served[n], n + 1)
      <4> HIDE DEF G, Turn, S
      <4> QED BY <1>10, <3>1
    <3>4. step[n + 1][served[n]] \in S
      <4> HIDE DEF G, Turn, S, step, N
      <4> QED BY <1>3, <3>1, <3>2
    <3>5. step[n + 1][served[n]] = Turn(served[n], n + 1)
      <4> HIDE DEF G, Turn, S, N
      <4> QED BY <3>1, <3>2
    <3> HIDE DEF Turn, S, step
    <3> QED BY <3>1, <3>3, <3>4, <3>5
  <2>3. 0 .. N \subseteq G
    <3> HIDE DEF G, N
    <3> QED BY <1>1, <2>1, <2>2, UpTo
  <2> QED BY <2>3
<1> WITNESS served
<1> QED BY <1>9, <1>10, <1>11

\* What holds of the tables before allocate(), and is kept by serving one open
\* promise, holds after it.
LEMMA AllocateKeeps ==
  ASSUME NEW t \in TablesType, NEW i, NEW G, t \in G,
         \A k \in OpenFor(t, i) : \A x \in G :
           /\ x \in TablesType
           /\ DOMAIN x.commitments = DOMAIN t.commitments
           => Serve(x, k) \in G
  PROVE  /\ Allocate(t, i) \in G
         /\ Allocate(t, i) \in TablesType
         /\ DOMAIN Allocate(t, i).commitments = DOMAIN t.commitments
<1> DEFINE N == Len(t.commitments)
<1>0. N \in Nat
  BY DEF TablesType
<1>1. PICK f :
         /\ f[0] = t
         /\ f[N] = Allocate(t, i)
         /\ \A k \in 0 .. N :
              f[k] \in TablesType /\ DOMAIN f[k].commitments = DOMAIN t.commitments
         /\ \A k \in 1 .. N :
              f[k] = IF k \in OpenFor(t, i) THEN Serve(f[k - 1], k) ELSE f[k - 1]
  BY AllocateTurns
<1> DEFINE Good == {n \in 0 .. N : f[n] \in G}
<1> HIDE DEF N
<1>2. 0 \in Good
  BY <1>0, <1>1
<1>3. ASSUME NEW n \in 0 .. N, n # N, n \in Good PROVE n + 1 \in Good
  <2>1. n + 1 \in 1 .. N /\ (n + 1) - 1 = n /\ n + 1 \in 0 .. N
    BY <1>0, <1>3
  <2>2. f[n + 1] = IF n + 1 \in OpenFor(t, i) THEN Serve(f[n], n + 1) ELSE f[n]
    BY <1>1, <2>1
  <2>3. /\ f[n] \in G
        /\ f[n] \in TablesType
        /\ DOMAIN f[n].commitments = DOMAIN t.commitments
    BY <1>1, <1>3
  <2>4. f[n + 1] \in G
    BY <2>2, <2>3
  <2> QED BY <2>1, <2>4
<1>4. 0 .. N \subseteq Good
  <2> HIDE DEF Good
  <2> QED BY <1>0, <1>2, <1>3, UpTo
<1>5. N \in Good /\ N \in 0 .. N
  BY <1>0, <1>4
<1> QED BY <1>1, <1>5

\* Serving all of them keeps the types.
LEMMA AllocateType ==
  ASSUME NEW t \in TablesType, NEW i
  PROVE  Allocate(t, i) \in TablesType
<1>1. \A k \in OpenFor(t, i) : k \in DOMAIN t.commitments
  BY DEF OpenFor
<1>2. \A k \in OpenFor(t, i) : \A x \in TablesType :
        /\ x \in TablesType
        /\ DOMAIN x.commitments = DOMAIN t.commitments
        => Serve(x, k) \in TablesType
  BY <1>1, ServeType
<1> QED BY <1>2, AllocateKeeps

\* Marking a promise as handed over keeps the types.
LEMMA MarkFulfilledType ==
  ASSUME NEW t \in TablesType, NEW k \in DOMAIN t.commitments, NEW q \in Nat
  PROVE  MarkFulfilled(t, k, q) \in TablesType
<1> DEFINE row  == t.commitments[k]
           done == row.fulfilled + q
           left == AtLeastZero(row.allocated - q)
           a == [row EXCEPT !.fulfilled = row.ordered, !.allocated = left, !.status = "fulfilled"]
           b == [row EXCEPT !.fulfilled = done, !.allocated = left]
<1>1. /\ row \in Commitment
      /\ row.ordered \in Nat /\ row.fulfilled \in Nat /\ row.allocated \in Nat
  BY CommitmentRow
<1>2. left \in Nat /\ done \in Nat
  BY <1>1 DEF AtLeastZero
<1>3. a \in Commitment /\ b \in Commitment
  <2> HIDE DEF left, done
  <2> QED BY <1>1, <1>2 DEF Commitment, CommitmentStatus
<1>4. MarkFulfilled(t, k, q) \in {[t EXCEPT !.commitments[k] = a], [t EXCEPT !.commitments[k] = b]}
  BY DEF MarkFulfilled
<1> HIDE DEF a, b
<1> QED BY <1>3, <1>4, CommitmentRow

\* Cancelling a promise keeps the types.
LEMMA CancelType ==
  ASSUME NEW t \in TablesType, NEW k \in DOMAIN t.commitments
  PROVE  Cancel(t, k) \in TablesType
<1> DEFINE row  == t.commitments[k]
           u == Consume(t, row.item, row.client, row.allocated, "released")
           gone == [row EXCEPT !.status = "cancelled", !.allocated = 0]
<1>1. /\ row \in Commitment /\ row.item \in Item /\ row.allocated \in Int
  BY CommitmentRow
<1>2. u \in TablesType
  BY <1>1, ConsumeType DEF HoldStatus
<1>3. u.commitments = t.commitments
  BY <1>1, HoldsOnly
<1>4. gone \in Commitment
  BY <1>1 DEF Commitment, CommitmentStatus
<1>5. Cancel(t, k) = [u EXCEPT !.commitments[k] = gone]
  BY DEF Cancel
<1> HIDE DEF u, gone
<1> QED BY <1>2, <1>3, <1>4, <1>5, CommitmentRow

\* Cancelling what a sale promised cancels one of its open promises, if any.
LEMMA CancelForInvoiceCases ==
  ASSUME NEW t, NEW s
  PROVE  \/ /\ CancelForInvoice(t, s) = t
            /\ ~ \E k \in DOMAIN t.commitments : t.commitments[k].sale = s /\ Awaiting(t, k)
         \/ \E k \in DOMAIN t.commitments :
              /\ t.commitments[k].sale = s
              /\ Awaiting(t, k)
              /\ CancelForInvoice(t, s) = Cancel(t, k)
<1> DEFINE open == {k \in DOMAIN t.commitments : t.commitments[k].sale = s /\ Awaiting(t, k)}
<1>1. CASE open = {}
  BY <1>1 DEF CancelForInvoice
<1>2. CASE open # {}
  <2>1. (CHOOSE k \in open : TRUE) \in open
    BY <1>2
  <2>2. CancelForInvoice(t, s) = Cancel(t, CHOOSE k \in open : TRUE)
    BY <1>2 DEF CancelForInvoice
  <2> QED BY <2>1, <2>2
<1> QED BY <1>1, <1>2

\* Cancelling what a sale promised keeps the types.
LEMMA CancelForInvoiceType ==
  ASSUME NEW t \in TablesType, NEW s
  PROVE  CancelForInvoice(t, s) \in TablesType
BY CancelForInvoiceCases, CancelType

\* The totals over the promises of a sale are counts.
LEMMA DeliveredType ==
  ASSUME NEW t \in TablesType, NEW s \in DOMAIN t.sales
  PROVE  /\ Promised(t, s) \in Nat
         /\ HandedOver(t, s) \in Nat
         /\ t.sales[s] \in Sale
         /\ Delivered(t, s) \in Int
<1>1. ASSUME NEW k \in DOMAIN t.commitments
      PROVE  t.commitments[k].ordered \in Nat /\ t.commitments[k].fulfilled \in Nat
  BY CommitmentRow
<1>2. t.commitments \in Seq(Commitment) /\ t.sales \in Seq(Sale)
  BY DEF TablesType
<1>3. Promised(t, s) \in Nat
  <2>1. [k \in DOMAIN t.commitments |->
            IF t.commitments[k].sale = s THEN t.commitments[k].ordered ELSE 0] \in Seq(Nat)
    BY <1>1, <1>2
  <2> QED BY <2>1, SumNat DEF Promised
<1>4. HandedOver(t, s) \in Nat
  <2>1. [k \in DOMAIN t.commitments |->
            IF t.commitments[k].sale = s THEN t.commitments[k].fulfilled ELSE 0] \in Seq(Nat)
    BY <1>1, <1>2
  <2> QED BY <2>1, SumNat DEF HandedOver
<1>5. t.sales[s] \in Sale
  BY <1>2
<1>6. t.sales[s].quantity \in Nat
  BY <1>5 DEF Sale
<1> QED BY <1>3, <1>4, <1>5, <1>6 DEF Delivered

\* Putting a sale's goods back keeps the types.
LEMMA PutBackType ==
  ASSUME NEW t \in TablesType, NEW s \in DOMAIN t.sales, NEW q \in Int
  PROVE  PutBack(t, s, q) \in TablesType
<1>1. CASE q <= 0
  BY <1>1 DEF PutBack
<1>2. CASE ~(q <= 0)
  <2> DEFINE row == [t.sales[s] EXCEPT !.moved = @ + q]
             more == [t.quantity EXCEPT ![t.sales[s].item] = @ + q]
  <2>1. t.sales \in Seq(Sale) /\ t.sales[s] \in Sale /\ t.quantity \in [Item -> Nat]
    BY DEF TablesType
  <2>2. t.sales[s].item \in Item /\ t.sales[s].moved \in Int
    BY <2>1 DEF Sale
  <2>3. row \in Sale
    <3> DEFINE m == t.sales[s].moved + q
    <3>1. row = [t.sales[s] EXCEPT !.moved = m] /\ m \in Int
      BY <2>2
    <3> HIDE DEF row, m
    <3> QED BY <2>1, <3>1 DEF Sale
  <2>4. [t.sales EXCEPT ![s] = row] \in Seq(Sale)
    <3> HIDE DEF row
    <3> QED BY <2>1, <2>3
  <2>5. more \in [Item -> Nat]
    BY <2>1, <2>2, <1>2
  <2>6. PutBack(t, s, q) = [t EXCEPT !.quantity = more, !.sales = [t.sales EXCEPT ![s] = row]]
    BY <1>2, <2>1 DEF PutBack, TablesType
  <2> HIDE DEF row, more
  <2> QED BY <2>4, <2>5, <2>6 DEF TablesType
<1> QED BY <1>1, <1>2

\* Taking a sale off the books keeps the types.
LEMMA UnwindType ==
  ASSUME NEW t \in TablesType, NEW s \in DOMAIN t.sales
  PROVE  Unwind(t, s) \in TablesType
BY DeliveredType, PutBackType, CancelForInvoiceType DEF Unwind

\* What is taken of a sale and what is short of it are counts; what is taken
\* is no more than was asked for.
LEMMA TakenType ==
  ASSUME NEW t \in TablesType, NEW i \in Item, NEW c \in Buyer, NEW q \in Nat
  PROVE  /\ Sellable(t, i, c) \in Int
         /\ Short(t, i, c, q) \in Nat
         /\ Taken(t, i, c, q) \in Nat
         /\ Taken(t, i, c, q) <= q
<1>1. t.quantity[i] \in Nat /\ t.reserved[i] \in Nat
  BY DEF TablesType
<1>2. HeldFor(t, i, c) \in Nat
  BY HeldNat DEF HeldFor
<1>3. Sellable(t, i, c) \in Int
  BY <1>1, <1>2 DEF Sellable, Available
<1>4. Short(t, i, c, q) \in Nat
  BY <1>3 DEF Short, AtLeastZero
<1>5. Taken(t, i, c, q) \in Nat /\ Taken(t, i, c, q) <= q
  BY <1>4 DEF Taken, AtLeastZero
<1> QED BY <1>3, <1>4, <1>5

\* The tables once the goods of a sale have left and its row is written.
Gone(t, i, c, q) ==
  LET row == [item |-> i, client |-> c, quantity |-> q, status |-> "completed",
              moved |-> -Taken(t, i, c, q)]
  IN  [t EXCEPT !.quantity[i] = @ - Taken(t, i, c, q), !.sales = Append(@, row)]

\* ... and the buyer's own holds are drawn.
Drawing(t, i, c, q) == Consume(Gone(t, i, c, q), i, c, Taken(t, i, c, q), "collected")

\* The goods of a sale leave before anything is drawn or promised.
LEMMA GoneType ==
  ASSUME NEW t \in TablesType, NEW i \in Item, NEW c \in Buyer, NEW q \in Nat \ {0},
         NEW backorder \in BOOLEAN, CanRing(t, i, c, q, backorder)
  PROVE  Gone(t, i, c, q) \in TablesType
<1> DEFINE taken == Taken(t, i, c, q)
           row == [item |-> i, client |-> c, quantity |-> q, status |-> "completed",
                   moved |-> -taken]
<1>1. taken \in Nat
  BY TakenType
<1>2. taken <= t.quantity[i]
  BY DEF CanRing
<1>3. t.quantity \in [Item -> Nat] /\ t.sales \in Seq(Sale)
  BY DEF TablesType
<1>4. row \in Sale
  <2> HIDE DEF taken
  <2> QED BY <1>1 DEF Sale, SaleStatus
<1>5. Append(t.sales, row) \in Seq(Sale)
  <2> HIDE DEF row
  <2> QED BY <1>3, <1>4
<1>6. [t.quantity EXCEPT ![i] = @ - taken] \in [Item -> Nat]
  <2> HIDE DEF taken
  <2> QED BY <1>1, <1>2, <1>3
<1>7. Gone(t, i, c, q) = [t EXCEPT !.quantity[i] = @ - taken, !.sales = Append(@, row)]
  BY DEF Gone
<1> HIDE DEF row, taken
<1> QED BY <1>5, <1>6, <1>7 DEF TablesType

\* A sale is the goods that leave and the holds that are drawn, and, when it
\* is short, a promise of what is short to a named customer.
LEMMA RingParts ==
  ASSUME NEW t \in TablesType, NEW i \in Item, NEW c \in Buyer, NEW q \in Nat \ {0},
         NEW backorder \in BOOLEAN, CanRing(t, i, c, q, backorder)
  PROVE  \/ /\ Short(t, i, c, q) = 0
            /\ Ring(t, i, c, q) = Drawing(t, i, c, q)
         \/ /\ Short(t, i, c, q) > 0
            /\ c \in Client
            /\ Lesser(Short(t, i, c, q), q) \in Nat \ {0}
            /\ Ring(t, i, c, q) = Promise(Drawing(t, i, c, q), Len(t.sales) + 1, i, c,
                                          Lesser(Short(t, i, c, q), q))
<1> DEFINE short == Short(t, i, c, q)
<1>1. short \in Nat
  BY TakenType
<1>2. CASE short = 0
  BY <1>2 DEF Ring, Drawing, Gone
<1>3. CASE short # 0
  <2>1. short > 0
    <3> HIDE DEF short
    <3> QED BY <1>1, <1>3
  <2>2. c \in Client
    BY <2>1 DEF CanRing, Buyer
  <2>3. Lesser(short, q) \in Nat \ {0}
    <3> HIDE DEF short
    <3> QED BY <1>1, <1>3 DEF Lesser
  <2>4. Ring(t, i, c, q) = Promise(Drawing(t, i, c, q), Len(t.sales) + 1, i, c, Lesser(short, q))
    BY <1>3 DEF Ring, Drawing, Gone
  <2> HIDE DEF short
  <2> QED BY <2>1, <2>2, <2>3, <2>4 DEF short
<1> QED BY <1>2, <1>3

\* Ringing a sale that the pre-flight check allows keeps the types.
LEMMA RingType ==
  ASSUME NEW t \in TablesType, NEW i \in Item, NEW c \in Buyer, NEW q \in Nat \ {0},
         NEW backorder \in BOOLEAN, CanRing(t, i, c, q, backorder)
  PROVE  /\ Drawing(t, i, c, q) \in TablesType
         /\ Ring(t, i, c, q) \in TablesType
<1>1. Drawing(t, i, c, q) \in TablesType
  <2>1. Taken(t, i, c, q) \in Int
    BY TakenType
  <2> QED BY <2>1, GoneType, ConsumeType DEF Drawing, HoldStatus
<1>2. Len(t.sales) + 1 \in Nat \ {0}
  BY DEF TablesType
<1>3. CASE Ring(t, i, c, q) = Drawing(t, i, c, q)
  BY <1>1, <1>3
<1>4. CASE Ring(t, i, c, q) # Drawing(t, i, c, q)
  <2>1. /\ c \in Client
        /\ Lesser(Short(t, i, c, q), q) \in Nat \ {0}
        /\ Ring(t, i, c, q) = Promise(Drawing(t, i, c, q), Len(t.sales) + 1, i, c,
                                      Lesser(Short(t, i, c, q), q))
    BY <1>4, RingParts
  <2> QED BY <1>1, <1>2, <2>1, PromiseType
<1> QED BY <1>1, <1>3, <1>4

\* Goods that are handed over leave the shelf when there are enough of them
\* (of a sale that is on file or not: an update of no row changes nothing).
LEMMA DepartedType ==
  ASSUME NEW t \in TablesType, NEW k \in DOMAIN t.commitments, NEW q \in Nat,
         q <= t.quantity[t.commitments[k].item]
  PROVE  [t EXCEPT !.quantity[t.commitments[k].item] = @ - q,
                   !.sales[t.commitments[k].sale].moved = @ - q] \in TablesType
<1> DEFINE row  == t.commitments[k]
           less == [t.quantity EXCEPT ![row.item] = @ - q]
           sold == [t.sales[row.sale] EXCEPT !.moved = @ - q]
           gone == [t EXCEPT !.quantity[row.item] = @ - q, !.sales[row.sale].moved = @ - q]
<1>1. row.item \in Item
  BY CommitmentRow
<1>2. t.quantity \in [Item -> Nat] /\ t.sales \in Seq(Sale)
  BY DEF TablesType
<1>3. less \in [Item -> Nat]
  <2> HIDE DEF row
  <2> QED BY <1>1, <1>2 DEF row
<1>4. ASSUME row.sale \in DOMAIN t.sales PROVE sold \in Sale
  <2> DEFINE m == t.sales[row.sale].moved - q
  <2>1. t.sales[row.sale] \in Sale
    BY <1>2, <1>4
  <2>2. sold = [t.sales[row.sale] EXCEPT !.moved = m] /\ m \in Int
    BY <2>1 DEF Sale
  <2> HIDE DEF sold, m
  <2> QED BY <2>1, <2>2 DEF Sale
<1>5. [t.sales EXCEPT ![row.sale] = sold] \in Seq(Sale)
  <2> HIDE DEF sold, row
  <2>1. CASE row.sale \in DOMAIN t.sales
    BY <1>2, <1>4, <2>1
  <2>2. CASE row.sale \notin DOMAIN t.sales
    <3>1. [t.sales EXCEPT ![row.sale] = sold] = t.sales
      BY <1>2, <2>2
    <3> QED BY <1>2, <3>1
  <2> QED BY <2>1, <2>2
<1>6. gone = [t EXCEPT !.quantity = less, !.sales = [t.sales EXCEPT ![row.sale] = sold]]
  BY <1>2 DEF TablesType
<1>7. gone \in TablesType
  <2> HIDE DEF gone, less, sold
  <2> QED BY <1>3, <1>5, <1>6 DEF TablesType
<1> QED BY <1>7

\* A handover keeps the types.
LEMMA HandOverType ==
  ASSUME NEW t \in TablesType, NEW k \in DOMAIN t.commitments, NEW q \in Nat,
         q <= t.quantity[t.commitments[k].item]
  PROVE  HandOver(t, k, q) \in TablesType
<1> DEFINE row  == t.commitments[k]
           gone == [t EXCEPT !.quantity[row.item] = @ - q, !.sales[row.sale].moved = @ - q]
           u == Consume(gone, row.item, row.client, q, "collected")
<1>1. row.item \in Item
  BY CommitmentRow
<1>2. gone \in TablesType
  BY DepartedType
<1>3. u \in TablesType
  <2> HIDE DEF gone
  <2> QED BY <1>1, <1>2, ConsumeType DEF HoldStatus
<1>4. DOMAIN u.commitments = DOMAIN t.commitments
  <2>1. u.commitments = gone.commitments
    <3> HIDE DEF gone
    <3> QED BY <1>1, <1>2, HoldsOnly
  <2>2. gone.commitments = t.commitments
    BY DEF TablesType
  <2> QED BY <2>1, <2>2
<1>5. HandOver(t, k, q) = MarkFulfilled(u, k, q)
  BY DEF HandOver
<1> HIDE DEF u
<1> QED BY <1>3, <1>4, <1>5, MarkFulfilledType

\* Rewriting the status of a sale keeps the types.
LEMMA RestatusType ==
  ASSUME NEW t \in TablesType, NEW s \in Nat, NEW status \in SaleStatus
  PROVE  [t EXCEPT !.sales[s].status = status] \in TablesType
<1> DEFINE row == [t.sales[s] EXCEPT !.status = status]
<1>1. t.sales \in Seq(Sale)
  BY DEF TablesType
<1>2. [t.sales EXCEPT ![s] = row] \in Seq(Sale)
  <2>1. CASE s \in DOMAIN t.sales
    <3>1. t.sales[s] \in Sale
      BY <1>1, <2>1
    <3>2. row \in Sale
      BY <3>1 DEF Sale
    <3> HIDE DEF row
    <3> QED BY <1>1, <2>1, <3>2
  <2>2. CASE s \notin DOMAIN t.sales
    <3> HIDE DEF row
    <3>1. [t.sales EXCEPT ![s] = row] = t.sales
      BY <1>1, <2>2
    <3> QED BY <1>1, <3>1
  <2> QED BY <2>1, <2>2
<1>3. [t EXCEPT !.sales[s].status = status] = [t EXCEPT !.sales = [t.sales EXCEPT ![s] = row]]
  BY DEF TablesType
<1> HIDE DEF row
<1> QED BY <1>2, <1>3 DEF TablesType

\* A shelf that changes by a number it can bear keeps the types.
LEMMA ShelfType ==
  ASSUME NEW t \in TablesType, NEW i \in Item, NEW n \in Int, t.quantity[i] + n >= 0
  PROVE  [t EXCEPT !.quantity[i] = @ + n] \in TablesType
<1> DEFINE more == [t.quantity EXCEPT ![i] = @ + n]
<1>1. more \in [Item -> Nat]
  BY DEF TablesType
<1>2. [t EXCEPT !.quantity[i] = @ + n] = [t EXCEPT !.quantity = more]
  BY DEF TablesType
<1> HIDE DEF more
<1> QED BY <1>1, <1>2 DEF TablesType

\* Goods that land keep the types.
LEMMA LandType ==
  ASSUME NEW t \in TablesType, NEW p \in Purchase, NEW q \in Nat
  PROVE  /\ Buys[p] \in Item
         /\ [t EXCEPT !.quantity[Buys[p]] = @ + q] \in TablesType
         /\ Land(t, p, q) \in TablesType
<1>1. Buys[p] \in Item
  BY ShopAssumption
<1>2. t.quantity[Buys[p]] + q >= 0 /\ q \in Int
  BY <1>1 DEF TablesType
<1>3. [t EXCEPT !.quantity[Buys[p]] = @ + q] \in TablesType
  BY <1>1, <1>2, ShelfType
<1>4. Land(t, p, q) \in TablesType
  BY <1>3, AllocateType DEF Land
<1> QED BY <1>1, <1>3, <1>4

\* What a request commits is what the tables become.
LEMMA CommitTables ==
  ASSUME NEW t \in TablesType, Commit(t)
  PROVE  Tables' = t
BY DEF Commit, Tables, TablesType

\* The tables are of their types exactly when the columns are.
LEMMA TablesTyped ==
  /\ TypeOK <=> Tables \in TablesType /\ purchases \in [Purchase -> PurchaseRow]
  /\ TypeOK' <=> Tables' \in TablesType /\ purchases' \in [Purchase -> PurchaseRow]
  /\ Tables.quantity = quantity /\ Tables.reserved = reserved /\ Tables.holds = holds
  /\ Tables.commitments = commitments /\ Tables.sales = sales
BY DEF TypeOK, Tables, TablesType

\* A receipt that can be taken back is taken from what is on the shelf.
LEMMA TakenBackType ==
  ASSUME NEW p \in Purchase, TypeOK, CanTakeBack(purchases[p], p)
  PROVE  TakenBack(Tables, purchases[p], p) \in TablesType
<1> DEFINE row == purchases[p]
<1>1. Tables \in TablesType /\ row \in PurchaseRow
  BY TablesTyped
<1>2. row.quantity \in Nat
  BY <1>1 DEF PurchaseRow
<1>3. CASE ~row.stockUpdated
  BY <1>1, <1>3 DEF TakenBack
<1>4. CASE row.stockUpdated
  <2>1. Buys[p] \in Item
    BY ShopAssumption
  <2>2. Tables.quantity[Buys[p]] \in Nat /\ Tables.reserved[Buys[p]] \in Nat
    BY <1>1, <2>1 DEF TablesType
  <2>3. row.quantity <= Available(Tables, Buys[p])
    BY <1>4 DEF CanTakeBack
  <2>4. Tables.quantity[Buys[p]] + (-row.quantity) >= 0 /\ -row.quantity \in Int
    BY <1>2, <2>2, <2>3 DEF Available
  <2>5. [Tables EXCEPT !.quantity[Buys[p]] = @ + (-row.quantity)] \in TablesType
    <3> HIDE DEF row
    <3> QED BY <1>1, <2>1, <2>4, ShelfType
  <2>6. TakenBack(Tables, row, p) = [Tables EXCEPT !.quantity[Buys[p]] = @ + (-row.quantity)]
    <3>1. Tables.quantity[Buys[p]] - row.quantity = Tables.quantity[Buys[p]] + (-row.quantity)
      BY <1>2, <2>2
    <3> QED BY <1>4, <3>1 DEF TakenBack
  <2> QED BY <2>5, <2>6
<1> QED BY <1>3, <1>4

\* Rewriting a purchase keeps its table of its type.
LEMMA PutType ==
  ASSUME NEW p \in Purchase, NEW row \in PurchaseRow, Put(p, row),
         purchases \in [Purchase -> PurchaseRow]
  PROVE  purchases' \in [Purchase -> PurchaseRow]
BY DEF Put
-----------------------------------------------------------------------------
\* The opening stock is of its types.
LEMMA ShopInitType == ShopInit => TypeOK
<1> SUFFICES ASSUME ShopInit PROVE TypeOK
  OBVIOUS
<1>1. quantity \in [Item -> Nat] /\ reserved \in [Item -> Nat]
  BY ShopAssumption DEF ShopInit
<1>2. holds \in Seq(Hold) /\ commitments \in Seq(Commitment) /\ sales \in Seq(Sale)
  BY DEF ShopInit
<1>3. purchases \in [Purchase -> PurchaseRow]
  BY ShopAssumption DEF ShopInit, PurchaseRow
<1> QED BY <1>1, <1>2, <1>3 DEF TypeOK

\* Every step of the shop floor keeps the rows of their types.
LEMMA ShopStepType == TypeOK /\ [ShopNext]_shopVars => TypeOK'
<1> SUFFICES ASSUME TypeOK, [ShopNext]_shopVars PROVE TypeOK'
  OBVIOUS
<1>0. /\ Tables \in TablesType
      /\ purchases \in [Purchase -> PurchaseRow]
      /\ Tables.quantity = quantity /\ Tables.reserved = reserved /\ Tables.holds = holds
      /\ Tables.commitments = commitments /\ Tables.sales = sales
  BY TablesTyped
<1>1. ASSUME NEW t \in TablesType, Commit(t), purchases' \in [Purchase -> PurchaseRow]
      PROVE  TypeOK'
  BY <1>1, CommitTables, TablesTyped
<1>2. ASSUME UNCHANGED stock, purchases' \in [Purchase -> PurchaseRow]
      PROVE  TypeOK'
  BY <1>2 DEF stock, TypeOK
<1>3. \A q \in Quantities : q \in Nat \ {0}
  BY ShopAssumption
<1>4. CASE \E i \in Item, c \in Client, q \in Quantities : CreateReservation(i, c, q)
  BY <1>0, <1>1, <1>3, <1>4, PlaceHoldType DEF CreateReservation
<1>5. CASE \E h \in DOMAIN holds : ReleaseReservation(h)
  BY <1>0, <1>1, <1>5, CloseType DEF ReleaseReservation, HoldStatus
<1>6. CASE \E i \in Item, delta \in Adjustments : AdjustStock(i, delta)
  <2>1. PICK i \in Item, delta \in Adjustments : AdjustStock(i, delta)
    BY <1>6
  <2>2. delta \in Int
    BY ShopAssumption
  <2> QED BY <1>0, <1>1, <2>1, <2>2, ShelfType DEF AdjustStock
<1>7. CASE \E i \in Item, c \in Buyer, q \in Quantities, backorder \in BOOLEAN :
             Checkout(i, c, q, backorder)
  <2>1. PICK i \in Item, c \in Buyer, q \in Quantities, backorder \in BOOLEAN :
               Checkout(i, c, q, backorder)
    BY <1>7
  <2>2. Ring(Tables, i, c, q) \in TablesType
    BY <1>0, <1>3, <2>1, RingType DEF Checkout
  <2> QED BY <1>0, <1>1, <2>1, <2>2 DEF Checkout
<1>8. CASE \E s \in DOMAIN sales : UndoSale(s)
  <2>1. PICK s \in DOMAIN sales : UndoSale(s)
    BY <1>8
  <2>2. s \in Nat /\ s \in DOMAIN Tables.sales
    BY <1>0 DEF TablesType
  <2>3. [Unwind(Tables, s) EXCEPT !.sales[s].status = "returned"] \in TablesType
    BY <1>0, <2>2, UnwindType, RestatusType DEF SaleStatus
  <2> QED BY <1>0, <1>1, <2>1, <2>3 DEF UndoSale
<1>9. CASE \E s \in DOMAIN sales, i \in Item, c \in Buyer, q \in Quantities,
              backorder \in BOOLEAN : AmendSale(s, i, c, q, backorder)
  <2>1. PICK s \in DOMAIN sales, i \in Item, c \in Buyer, q \in Quantities,
               backorder \in BOOLEAN : AmendSale(s, i, c, q, backorder)
    BY <1>9
  <2> DEFINE undone == [Unwind(Tables, s) EXCEPT !.sales[s].status = "amended"]
  <2>2. s \in Nat /\ s \in DOMAIN Tables.sales
    BY <1>0 DEF TablesType
  <2>3. undone \in TablesType
    BY <1>0, <2>2, UnwindType, RestatusType DEF SaleStatus
  <2>4. CanRing(undone, i, c, q, backorder) /\ Commit(Ring(undone, i, c, q)) /\ purchases' = purchases
    BY <2>1 DEF AmendSale
  <2> HIDE DEF undone
  <2>5. Ring(undone, i, c, q) \in TablesType
    BY <1>3, <2>3, <2>4, RingType
  <2> QED BY <1>0, <1>1, <2>4, <2>5
<1>10. CASE \E k \in DOMAIN commitments, q \in Quantities : Deliver(k, q)
  <2>1. PICK k \in DOMAIN commitments, q \in Quantities : Deliver(k, q)
    BY <1>10
  <2>2. HandOver(Tables, k, q) \in TablesType
    BY <1>0, <1>3, <2>1, HandOverType DEF Deliver
  <2> QED BY <1>0, <1>1, <2>1, <2>2 DEF Deliver
<1>11. CASE \E k \in DOMAIN commitments : CancelCommitment(k)
  BY <1>0, <1>1, <1>11, CancelType DEF CancelCommitment
<1>12. CASE \E i \in Item : AllocateNow(i)
  BY <1>0, <1>1, <1>12, AllocateType DEF AllocateNow
<1>13. CASE \E p \in Purchase : BeginReceipt(p)
  <2>1. PICK p \in Purchase : BeginReceipt(p)
    BY <1>13
  <2>2. [purchases[p] EXCEPT !.checked = @ + 1] \in PurchaseRow
    BY <1>0 DEF PurchaseRow
  <2> QED BY <1>0, <1>2, <2>1, <2>2, PutType DEF BeginReceipt
<1>14. CASE \E p \in Purchase : MarkReceived(p)
  <2>1. PICK p \in Purchase : MarkReceived(p)
    BY <1>14
  <2>2. [purchases[p] EXCEPT !.checked = @ - 1, !.crediting = @ + 1, !.received = TRUE]
          \in PurchaseRow
    <3> DEFINE row == purchases[p]
               a == row.checked - 1
               b == row.crediting + 1
    <3>1. row \in PurchaseRow
      BY <1>0
    <3>2. a \in Nat /\ b \in Nat
      BY <2>1, <3>1 DEF PurchaseRow, MarkReceived
    <3>3. [row EXCEPT !.checked = a, !.crediting = b, !.received = TRUE] \in PurchaseRow
      <4> HIDE DEF row, a, b
      <4> QED BY <3>1, <3>2 DEF PurchaseRow
    <3> QED BY <3>1, <3>3 DEF PurchaseRow
  <2> QED BY <1>0, <1>2, <2>1, <2>2, PutType DEF MarkReceived
<1>15. CASE \E p \in Purchase : CreditStock(p)
  <2>1. PICK p \in Purchase : CreditStock(p)
    BY <1>15
  <2> DEFINE row == purchases[p]
             done == [row EXCEPT !.crediting = @ - 1, !.booked = TRUE,
                                 !.status = IF row.voided THEN @ ELSE "Received"]
  <2>2. row \in PurchaseRow
    BY <1>0
  <2>3. done \in PurchaseRow
    <3> DEFINE a == row.crediting - 1
               st == IF row.voided THEN row.status ELSE "Received"
    <3>1. a \in Nat /\ st \in {"Ordered", "Received"}
      BY <2>1, <2>2 DEF PurchaseRow, CreditStock
    <3>2. [row EXCEPT !.crediting = a, !.booked = TRUE, !.status = st] \in PurchaseRow
      <4> HIDE DEF row, a, st
      <4> QED BY <2>2, <3>1 DEF PurchaseRow
    <3>3. done = [row EXCEPT !.crediting = a, !.booked = TRUE, !.status = st]
      BY <2>2 DEF PurchaseRow
    <3> HIDE DEF done, a, st
    <3> QED BY <3>2, <3>3
  <2>4. [done EXCEPT !.stockUpdated = TRUE, !.moved = @ + row.quantity] \in PurchaseRow
    <3> DEFINE m == done.moved + row.quantity
    <3>1. m \in Int
      <4> HIDE DEF done
      <4> QED BY <2>2, <2>3 DEF PurchaseRow
    <3>2. [done EXCEPT !.stockUpdated = TRUE, !.moved = m] \in PurchaseRow
      <4> HIDE DEF done, m
      <4> QED BY <2>3, <3>1 DEF PurchaseRow
    <3> HIDE DEF done
    <3> QED BY <2>3, <3>2 DEF PurchaseRow
  <2>5. row.quantity \in Nat
    BY <2>2 DEF PurchaseRow
  <2>6. CASE CanClaim(row) /\ Commit(Land(Tables, p, row.quantity))
             /\ Put(p, [done EXCEPT !.stockUpdated = TRUE, !.moved = @ + row.quantity])
    <3> HIDE DEF row, done
    <3>1. Land(Tables, p, row.quantity) \in TablesType
      BY <1>0, <2>5, LandType
    <3> QED BY <1>0, <1>1, <2>4, <2>6, <3>1, PutType
  <2>7. CASE Put(p, done) /\ UNCHANGED stock
    <3> HIDE DEF done
    <3> QED BY <1>0, <1>2, <2>3, <2>7, PutType
  <2> QED BY <2>1, <2>6, <2>7 DEF CreditStock
<1>16. CASE \E p \in Purchase : ReceiptDies(p)
  <2>1. PICK p \in Purchase : ReceiptDies(p)
    BY <1>16
  <2>2. ASSUME purchases[p].checked > 0
        PROVE  [purchases[p] EXCEPT !.checked = @ - 1] \in PurchaseRow
    BY <1>0, <2>2 DEF PurchaseRow
  <2>3. ASSUME purchases[p].crediting > 0
        PROVE  [purchases[p] EXCEPT !.crediting = @ - 1] \in PurchaseRow
    BY <1>0, <2>3 DEF PurchaseRow
  <2> QED BY <1>0, <1>2, <2>1, <2>2, <2>3, PutType DEF ReceiptDies
<1>17. CASE \E p \in Purchase : RepeatReceipt(p)
  <2>1. PICK p \in Purchase : RepeatReceipt(p)
    BY <1>17
  <2>2. [purchases[p] EXCEPT !.booked = TRUE, !.status = "Received"] \in PurchaseRow
    BY <1>0 DEF PurchaseRow
  <2> QED BY <1>0, <1>2, <2>1, <2>2, PutType DEF RepeatReceipt
<1>18. CASE \E p \in Purchase, q \in Quantities : RestatePurchase(p, q)
  <2>1. PICK p \in Purchase, q \in Quantities : RestatePurchase(p, q)
    BY <1>18
  <2> DEFINE row == purchases[p]
             net == IF row.stockUpdated THEN row.moved - row.quantity ELSE row.moved
  <2>2. row \in PurchaseRow /\ q \in Nat \ {0}
    BY <1>0, <1>3
  <2>3. net \in Int
    BY <2>2 DEF PurchaseRow
  <2>4. CASE Put(p, [row EXCEPT !.quantity = q]) /\ UNCHANGED stock
    <3>1. [row EXCEPT !.quantity = q] \in PurchaseRow
      BY <2>2 DEF PurchaseRow
    <3> QED BY <1>0, <1>2, <2>4, <3>1, PutType
  <2>5. CASE /\ CanTakeBack(row, p)
             /\ Commit(Land(TakenBack(Tables, row, p), p, q))
             /\ Put(p, [row EXCEPT !.quantity = q, !.stockUpdated = TRUE,
                                   !.booked = row.received, !.moved = net + q])
    <3>1. [row EXCEPT !.quantity = q, !.stockUpdated = TRUE,
                      !.booked = row.received, !.moved = net + q] \in PurchaseRow
      <4> DEFINE m == net + q
      <4>1. m \in Int
        BY <2>2, <2>3
      <4> HIDE DEF m, net
      <4>2. [row EXCEPT !.quantity = q, !.stockUpdated = TRUE,
                        !.booked = row.received, !.moved = m] \in PurchaseRow
        BY <2>2, <4>1 DEF PurchaseRow
      <4> QED BY <4>2 DEF m
    <3>2. Land(TakenBack(Tables, row, p), p, q) \in TablesType
      <4>1. TakenBack(Tables, row, p) \in TablesType
        BY <2>5, TakenBackType
      <4> QED BY <2>2, <4>1, LandType
    <3>3. purchases' \in [Purchase -> PurchaseRow]
      BY <1>0, <2>5, <3>1, PutType
    <3> QED BY <1>1, <2>5, <3>2, <3>3
  <2> QED BY <2>1, <2>4, <2>5 DEF RestatePurchase
<1>19. CASE \E p \in Purchase : VoidPurchase(p)
  <2>1. PICK p \in Purchase : VoidPurchase(p)
    BY <1>19
  <2> DEFINE row == purchases[p]
             m == IF row.stockUpdated THEN row.moved - row.quantity ELSE row.moved
  <2>2. row \in PurchaseRow
    BY <1>0
  <2>3. m \in Int
    BY <2>2 DEF PurchaseRow
  <2>4. /\ CanTakeBack(row, p)
        /\ Commit(TakenBack(Tables, row, p))
        /\ Put(p, [row EXCEPT !.voided = TRUE, !.stockUpdated = FALSE, !.moved = m])
    BY <2>1, <2>2 DEF VoidPurchase, PurchaseRow
  <2>5. [row EXCEPT !.voided = TRUE, !.stockUpdated = FALSE, !.moved = m] \in PurchaseRow
    <3> HIDE DEF m
    <3> QED BY <2>2, <2>3 DEF PurchaseRow
  <2>6. purchases' \in [Purchase -> PurchaseRow]
    <3> HIDE DEF m
    <3> QED BY <1>0, <2>4, <2>5, PutType
  <2>7. TakenBack(Tables, row, p) \in TablesType
    BY <2>4, TakenBackType
  <2> QED BY <1>1, <2>4, <2>6, <2>7
<1>20. CASE UNCHANGED shopVars
  BY <1>0, <1>2, <1>20 DEF shopVars
<1> QED
  BY <1>4, <1>5, <1>6, <1>7, <1>8, <1>9, <1>10, <1>11, <1>12, <1>13, <1>14,
     <1>15, <1>16, <1>17, <1>18, <1>19, <1>20 DEF ShopNext

\* Every request, whatever came before it and whoever comes between its steps,
\* leaves rows of their types; no count on the shelf goes below zero.
THEOREM ShopTypeOK == ShopSpec => []TypeOK
BY ShopInitType, ShopStepType, PTL DEF ShopSpec
=============================================================================
