---------------------------- MODULE Sums_proofs ----------------------------
(***************************************************************************)
(* Totals over sequences of integers, for sequences of every length.       *)
(*                                                                         *)
(* SumTo is a recursive function.  That it satisfies its equations, and    *)
(* everything else by induction, is derived from the well-foundedness of   *)
(* the finite sets of naturals under strict inclusion.                     *)
(***************************************************************************)
EXTENDS Sums, FiniteSetTheorems, WellFoundedInduction, TLAPS

\* A set of naturals that is not empty has a least element.
LEMMA LeastNat ==
  ASSUME NEW T \in SUBSET Nat, T # {}
  PROVE  \E x \in T : \A y \in T : x <= y
<1> DEFINE F == {0 .. n : n \in T}
<1>1. IsWellFoundedOn(StrictSubsetOrdering(Nat), FiniteSubsetsOf(Nat))
  BY FS_StrictSubsetOrderingWellFounded
<1>2. F \subseteq FiniteSubsetsOf(Nat)
  <2>1. ASSUME NEW n \in T PROVE 0 .. n \in FiniteSubsetsOf(Nat)
    <3>1. 0 .. n \in SUBSET Nat
      OBVIOUS
    <3>2. IsFiniteSet(0 .. n)
      <4>1. 0 \in Int /\ n \in Int
        OBVIOUS
      <4> QED BY <4>1, FS_Interval
    <3> QED BY <3>1, <3>2 DEF FiniteSubsetsOf
  <2> QED BY <2>1
<1>3. F # {}
  OBVIOUS
<1>4. PICK f \in F : \A g \in F : ~ (<<g, f>> \in StrictSubsetOrdering(Nat))
  <2> HIDE DEF F
  <2> QED BY <1>1, <1>2, <1>3, WFMin
<1>5. PICK x \in T : f = 0 .. x
  OBVIOUS
<1>6. ASSUME NEW y \in T, y < x PROVE FALSE
  <2>1. <<0 .. y, 0 .. x>> \in StrictSubsetOrdering(Nat)
    <3>1. 0 .. y \in SUBSET Nat /\ 0 .. x \in SUBSET Nat
      OBVIOUS
    <3>2. 0 .. y \subseteq 0 .. x /\ x \in 0 .. x /\ x \notin 0 .. y
      BY <1>6
    <3> QED BY <3>1, <3>2 DEF StrictSubsetOrdering
  <2> QED BY <2>1, <1>4, <1>5
<1> QED BY <1>6

\* Induction over 0..N, with the property given as the set of the indices
\* that have it.
LEMMA UpTo ==
  ASSUME NEW N \in Nat, NEW G, 0 \in G,
         \A n \in 0 .. N : n # N /\ n \in G => n + 1 \in G
  PROVE  0 .. N \subseteq G
<1> DEFINE Bad == {n \in 0 .. N : n \notin G}
<1>1. SUFFICES ASSUME Bad # {} PROVE FALSE
  OBVIOUS
<1>2. Bad \in SUBSET Nat
  OBVIOUS
<1>3. PICK x \in Bad : \A y \in Bad : x <= y
  <2> HIDE DEF Bad
  <2> QED BY <1>1, <1>2, LeastNat
<1>4. x \in 0 .. N /\ x # 0 /\ x \notin G
  OBVIOUS
<1>5. x - 1 \in 0 .. N /\ x - 1 # N /\ x - 1 \notin Bad
  BY <1>3, <1>4
<1>6. x - 1 \in G
  BY <1>5
<1> QED BY <1>4, <1>5, <1>6

\* f is defined by recursion on 0..n, with values in S: step[m] takes the
\* value at m - 1 to the value at m.
Recursive(f, n, S, base, step) ==
  /\ f \in [0 .. n -> S]
  /\ f[0] = base
  /\ \A m \in 0 .. n : m # 0 => f[m] = step[m][f[m - 1]]

\* A recursive definition has a solution when no step leaves S.
LEMMA Recursion ==
  ASSUME NEW N \in Nat, NEW S, NEW base \in S, NEW step,
         \A n \in 0 .. N : \A x \in S : step[n][x] \in S
  PROVE  \E f : Recursive(f, N, S, base, step)
<1> DEFINE Upto(n, f) == Recursive(f, n, S, base, step)
           G == {n \in 0 .. N : \E f : Upto(n, f)}
<1>1. 0 \in G
  <2>1. Upto(0, [k \in 0 .. 0 |-> base])
    BY DEF Recursive
  <2>2. 0 \in 0 .. N
    OBVIOUS
  <2> HIDE DEF Upto
  <2> QED BY <2>1, <2>2
<1>2. ASSUME NEW n \in 0 .. N, n # N, n \in G PROVE n + 1 \in G
  <2>1. PICK f : Upto(n, f)
    BY <1>2
  <2>0. /\ f \in [0 .. n -> S]
        /\ f[0] = base
        /\ \A m \in 0 .. n : m # 0 => f[m] = step[m][f[m - 1]]
    BY <2>1 DEF Recursive
  <2> DEFINE g == [k \in 0 .. n + 1 |-> IF k = n + 1 THEN step[n + 1][f[n]] ELSE f[k]]
  <2>2. n + 1 \in 0 .. N
    <3> HIDE DEF G
    <3> QED BY <1>2
  <2>3. step[n + 1][f[n]] \in S
    <3>1. f[n] \in S
      BY <2>0
    <3> HIDE DEF Upto, G, g
    <3> QED BY <2>2, <3>1
  <2>4. g \in [0 .. n + 1 -> S]
    BY <2>0, <2>3
  <2>5. g[0] = base
    BY <2>0
  <2>6. ASSUME NEW m \in 0 .. n + 1, m # 0 PROVE g[m] = step[m][g[m - 1]]
    <3>1. CASE m = n + 1
      BY <3>1, <2>0
    <3>2. CASE m # n + 1
      <4>1. m \in 0 .. n /\ m - 1 \in 0 .. n
        BY <2>6, <3>2
      <4>2. g[m] = f[m] /\ g[m - 1] = f[m - 1]
        BY <4>1
      <4> QED BY <4>1, <4>2, <2>0, <2>6
    <3> QED BY <3>1, <3>2
  <2>7. Upto(n + 1, g)
    BY <2>4, <2>5, <2>6 DEF Recursive
  <2> HIDE DEF Upto, g
  <2> QED BY <2>2, <2>7
<1>3. 0 .. N \subseteq G
  <2> HIDE DEF G
  <2> QED BY <1>1, <1>2, UpTo
<1>4. \E f : Upto(N, f)
  <2> HIDE DEF Upto
  <2> QED BY <1>3
<1> QED BY <1>4

\* The equations of SumTo.
LEMMA SumToDef ==
  ASSUME NEW s \in Seq(Int)
  PROVE  /\ SumTo(s, 0) = 0
         /\ \A n \in 1 .. Len(s) : SumTo(s, n) = SumTo(s, n - 1) + s[n]
         /\ \A n \in 0 .. Len(s) : SumTo(s, n) \in Int
<1> DEFINE N == Len(s)
           step == [k \in 0 .. N |-> [x \in Int |-> IF k = 0 THEN 0 ELSE x + s[k]]]
           Body(f) == [k \in 0 .. N |-> IF k = 0 THEN 0 ELSE f[k - 1] + s[k]]
           total == CHOOSE f : f = Body(f)
<1>1. N \in Nat
  OBVIOUS
<1>2. \A n \in 0 .. N : \A x \in Int : step[n][x] \in Int
  OBVIOUS
<1>3. PICK f : Recursive(f, N, Int, 0, step)
  <2>1. 0 \in Int
    OBVIOUS
  <2> HIDE DEF step, N, Body, total
  <2> QED BY <1>1, <1>2, <2>1, Recursion, Zenon
<1>4. /\ f \in [0 .. N -> Int]
      /\ f[0] = 0
      /\ \A n \in 0 .. N : n # 0 => f[n] = step[n][f[n - 1]]
  <2> HIDE DEF step, N
  <2> QED BY <1>3 DEF Recursive
<1>5. f = Body(f)
  <2>1. ASSUME NEW n \in 0 .. N, n # 0 PROVE f[n] = f[n - 1] + s[n]
    <3>1. f[n] = step[n][f[n - 1]]
      <4> HIDE DEF step, Body, total
      <4> QED BY <1>4, <2>1
    <3>2. f[n - 1] \in Int
      <4>1. n - 1 \in 0 .. N
        BY <2>1
      <4> QED BY <4>1, <1>4
    <3> HIDE DEF Body, total
    <3> QED BY <3>1, <3>2, <2>1
  <2> QED BY <1>4, <2>1
<1>6. total = Body(total)
  <2> HIDE DEF Body
  <2> QED BY <1>5
<1>7. \A n \in 0 .. N : SumTo(s, n) = total[n]
  BY DEF SumTo
<1> HIDE DEF total
<1>8. \A n \in 0 .. N : total[n] = IF n = 0 THEN 0 ELSE total[n - 1] + s[n]
  BY <1>6
<1>9. \A n \in 0 .. N : total[n] \in Int
  <2> DEFINE G == {n \in 0 .. N : total[n] \in Int}
  <2>1. 0 \in G
    BY <1>8
  <2>2. \A n \in 0 .. N : n # N /\ n \in G => n + 1 \in G
    <3> SUFFICES ASSUME NEW n \in 0 .. N, n # N, n \in G PROVE n + 1 \in G
      OBVIOUS
    <3>1. n + 1 \in 1 .. N /\ s[n + 1] \in Int
      OBVIOUS
    <3>2. total[n + 1] = total[n] + s[n + 1]
      BY <1>8, <3>1
    <3> QED BY <3>1, <3>2
  <2>3. 0 .. N \subseteq G
    <3> HIDE DEF G, N
    <3> QED BY <1>1, <2>1, <2>2, UpTo
  <2> QED BY <2>3
<1>10. SumTo(s, 0) = 0
  BY <1>7, <1>8
<1>11. ASSUME NEW n \in 1 .. Len(s) PROVE SumTo(s, n) = SumTo(s, n - 1) + s[n]
  <2>1. n \in 0 .. N /\ n - 1 \in 0 .. N /\ n # 0
    BY <1>11
  <2> HIDE DEF N
  <2> QED BY <2>1, <1>7, <1>8
<1>12. \A n \in 0 .. Len(s) : SumTo(s, n) \in Int
  BY <1>7, <1>9
<1> QED BY <1>10, <1>11, <1>12

\* A total of integers is an integer.
LEMMA SumType ==
  ASSUME NEW s \in Seq(Int)
  PROVE  SeqSum(s) \in Int
BY SumToDef DEF SeqSum

\* A total of counts is a count.
LEMMA SumNat ==
  ASSUME NEW s \in Seq(Nat)
  PROVE  SeqSum(s) \in Nat
<1> DEFINE N == Len(s)
           G == {n \in 0 .. N : SumTo(s, n) \in Nat}
<1>0. N \in Nat /\ s \in Seq(Int)
  OBVIOUS
<1>1. 0 \in G
  BY <1>0, SumToDef
<1>2. ASSUME NEW n \in 0 .. N, n # N, n \in G PROVE n + 1 \in G
  <2>1. n + 1 \in 1 .. N /\ s[n + 1] \in Nat /\ SumTo(s, n) \in Nat
    BY <1>2
  <2>2. SumTo(s, n + 1) = SumTo(s, (n + 1) - 1) + s[n + 1]
    BY <1>0, <2>1, SumToDef
  <2> QED BY <2>1, <2>2
<1>3. 0 .. N \subseteq G
  <2> HIDE DEF G, N
  <2> QED BY <1>0, <1>1, <1>2, UpTo
<1> QED BY <1>0, <1>3 DEF SeqSum

\* A total of zeros is zero.
LEMMA SumZero ==
  ASSUME NEW s \in Seq(Int), \A k \in 1 .. Len(s) : s[k] = 0
  PROVE  SeqSum(s) = 0
<1> DEFINE N == Len(s)
           G == {n \in 0 .. N : SumTo(s, n) = 0}
<1>0. N \in Nat
  OBVIOUS
<1>1. 0 \in G
  BY <1>0, SumToDef
<1>2. ASSUME NEW n \in 0 .. N, n # N, n \in G PROVE n + 1 \in G
  <2>1. n + 1 \in 1 .. N /\ s[n + 1] = 0 /\ SumTo(s, n) = 0
    BY <1>2
  <2>2. SumTo(s, n + 1) = SumTo(s, (n + 1) - 1) + s[n + 1]
    BY <2>1, SumToDef
  <2> QED BY <2>1, <2>2
<1>3. 0 .. N \subseteq G
  <2> HIDE DEF G, N
  <2> QED BY <1>0, <1>1, <1>2, UpTo
<1> QED BY <1>0, <1>3 DEF SeqSum

\* Two sequences that agree on their first n entries have the same total there.
LEMMA SumPrefix ==
  ASSUME NEW s \in Seq(Int), NEW r \in Seq(Int), NEW N \in Nat,
         N <= Len(s), N <= Len(r), \A k \in 1 .. N : s[k] = r[k]
  PROVE  SumTo(s, N) = SumTo(r, N)
<1> DEFINE G == {n \in 0 .. N : SumTo(s, n) = SumTo(r, n)}
<1>1. 0 \in G
  BY SumToDef
<1>2. ASSUME NEW n \in 0 .. N, n # N, n \in G PROVE n + 1 \in G
  <2>1. n + 1 \in 1 .. N /\ n + 1 \in 1 .. Len(s) /\ n + 1 \in 1 .. Len(r)
    BY <1>2
  <2>2. SumTo(s, n + 1) = SumTo(s, (n + 1) - 1) + s[n + 1]
    BY <2>1, SumToDef
  <2>3. SumTo(r, n + 1) = SumTo(r, (n + 1) - 1) + r[n + 1]
    BY <2>1, SumToDef
  <2>4. (n + 1) - 1 = n /\ SumTo(s, n) = SumTo(r, n) /\ s[n + 1] = r[n + 1]
    BY <1>2, <2>1
  <2> QED BY <2>1, <2>2, <2>3, <2>4
<1>3. 0 .. N \subseteq G
  <2> HIDE DEF G
  <2> QED BY <1>1, <1>2, UpTo
<1> QED BY <1>3

\* A row added at the end adds its entry to the total.
LEMMA SumAppend ==
  ASSUME NEW s \in Seq(Int), NEW x \in Int
  PROVE  SeqSum(Append(s, x)) = SeqSum(s) + x
<1> DEFINE r == Append(s, x)
<1>1. r \in Seq(Int) /\ Len(r) = Len(s) + 1 /\ r[Len(s) + 1] = x /\ Len(s) \in Nat
  OBVIOUS
<1>2. \A k \in 1 .. Len(s) : s[k] = r[k]
  OBVIOUS
<1> HIDE DEF r
<1>3. SumTo(s, Len(s)) = SumTo(r, Len(s))
  <2>1. Len(s) <= Len(s) /\ Len(s) <= Len(r)
    BY <1>1
  <2> QED BY <1>1, <1>2, <2>1, SumPrefix
<1>4. Len(r) \in 1 .. Len(r) /\ Len(r) - 1 = Len(s)
  BY <1>1
<1>5. SumTo(r, Len(r)) = SumTo(r, Len(r) - 1) + r[Len(r)]
  BY <1>1, <1>4, SumToDef
<1> QED BY <1>1, <1>3, <1>4, <1>5 DEF SeqSum, r

\* Rewriting one row moves the total by the difference.
LEMMA SumReplace ==
  ASSUME NEW s \in Seq(Int), NEW r \in Seq(Int), NEW k \in 1 .. Len(s),
         Len(r) = Len(s), \A j \in 1 .. Len(s) : j # k => r[j] = s[j]
  PROVE  SeqSum(r) = SeqSum(s) - s[k] + r[k]
<1> DEFINE N == Len(s)
           G == {n \in 0 .. N : SumTo(r, n) =
                   IF n < k THEN SumTo(s, n) ELSE SumTo(s, n) - s[k] + r[k]}
<1>0. N \in Nat /\ s[k] \in Int /\ r[k] \in Int /\ k \in Nat
  OBVIOUS
<1>1. 0 \in G
  <2>1. SumTo(s, 0) = 0 /\ SumTo(r, 0) = 0
    BY SumToDef
  <2> QED BY <2>1
<1>2. ASSUME NEW n \in 0 .. N, n # N, n \in G PROVE n + 1 \in G
  <2>1. n + 1 \in 1 .. N /\ n + 1 \in 1 .. Len(r) /\ n + 1 \in 0 .. N
        /\ (n + 1) - 1 = n
    BY <1>2
  <2>2. SumTo(s, n + 1) = SumTo(s, n) + s[n + 1]
    BY <2>1, SumToDef
  <2>3. SumTo(r, n + 1) = SumTo(r, n) + r[n + 1]
    BY <2>1, SumToDef
  <2>4. SumTo(s, n) \in Int /\ SumTo(r, n) \in Int
    BY <2>1, SumToDef
  <2>5. SumTo(r, n) = IF n < k THEN SumTo(s, n) ELSE SumTo(s, n) - s[k] + r[k]
    BY <1>2
  <2>6. s[n + 1] \in Int /\ r[n + 1] \in Int
    BY <2>1
  <2>7. CASE n + 1 < k
    <3>1. r[n + 1] = s[n + 1]
      BY <2>1, <2>7
    <3>2. SumTo(r, n + 1) = SumTo(s, n + 1)
      BY <2>2, <2>3, <2>5, <2>7, <3>1, <1>0
    <3> QED BY <2>1, <2>7, <3>2
  <2>8. CASE n + 1 = k
    <3>1. SumTo(r, n) = SumTo(s, n)
      BY <2>5, <2>8, <1>0
    <3>2. SumTo(r, n + 1) = SumTo(s, n + 1) - s[k] + r[k]
      BY <2>2, <2>3, <2>4, <2>8, <3>1, <1>0
    <3> QED BY <2>1, <2>8, <3>2
  <2>9. CASE n + 1 > k
    <3>1. r[n + 1] = s[n + 1]
      BY <2>1, <2>9
    <3>2. SumTo(r, n) = SumTo(s, n) - s[k] + r[k]
      BY <2>5, <2>9, <1>0
    <3>3. SumTo(r, n + 1) = SumTo(s, n) - s[k] + r[k] + s[n + 1]
      BY <2>3, <3>1, <3>2
    <3>4. SumTo(r, n + 1) = SumTo(s, n + 1) - s[k] + r[k]
      <4> HIDE DEF G, N
      <4> QED BY <2>2, <2>4, <2>6, <3>1, <3>3, <1>0
    <3> QED BY <2>1, <2>9, <3>4, <1>0
  <2> QED BY <2>7, <2>8, <2>9, <1>0
<1>3. 0 .. N \subseteq G
  <2> HIDE DEF G, N
  <2> QED BY <1>0, <1>1, <1>2, UpTo
<1>4. N \in G /\ ~ (N < k)
  BY <1>0, <1>3
<1> QED BY <1>4 DEF SeqSum

\* Entries that split in two split the total.
LEMMA SumPlus ==
  ASSUME NEW s \in Seq(Int), NEW a \in Seq(Int), NEW b \in Seq(Int),
         Len(a) = Len(s), Len(b) = Len(s), \A k \in 1 .. Len(s) : s[k] = a[k] + b[k]
  PROVE  SeqSum(s) = SeqSum(a) + SeqSum(b)
<1> DEFINE N == Len(s)
           G == {n \in 0 .. N : SumTo(s, n) = SumTo(a, n) + SumTo(b, n)}
<1>0. N \in Nat
  OBVIOUS
<1>1. 0 \in G
  <2>1. SumTo(s, 0) = 0 /\ SumTo(a, 0) = 0 /\ SumTo(b, 0) = 0
    BY SumToDef
  <2> QED BY <1>0, <2>1
<1>2. ASSUME NEW n \in 0 .. N, n # N, n \in G PROVE n + 1 \in G
  <2>1. n + 1 \in 1 .. N /\ n + 1 \in 0 .. N /\ (n + 1) - 1 = n
    BY <1>0, <1>2
  <2>2. /\ SumTo(s, n + 1) = SumTo(s, n) + s[n + 1]
        /\ SumTo(a, n + 1) = SumTo(a, n) + a[n + 1]
        /\ SumTo(b, n + 1) = SumTo(b, n) + b[n + 1]
    BY <2>1, SumToDef
  <2>3. SumTo(a, n) \in Int /\ SumTo(b, n) \in Int /\ a[n + 1] \in Int /\ b[n + 1] \in Int
    BY <2>1, SumToDef
  <2>4. SumTo(s, n) = SumTo(a, n) + SumTo(b, n) /\ s[n + 1] = a[n + 1] + b[n + 1]
    BY <1>2, <2>1
  <2>5. SumTo(s, n + 1) = SumTo(a, n + 1) + SumTo(b, n + 1)
    <3> HIDE DEF G, N
    <3> QED BY <2>2, <2>3, <2>4
  <2> QED BY <2>1, <2>5
<1>3. 0 .. N \subseteq G
  <2> HIDE DEF G, N
  <2> QED BY <1>0, <1>1, <1>2, UpTo
<1> QED BY <1>0, <1>3 DEF SeqSum

\* Entries that are no larger add up to no more.
LEMMA SumAtMost ==
  ASSUME NEW s \in Seq(Int), NEW r \in Seq(Int), Len(r) = Len(s),
         \A k \in 1 .. Len(s) : r[k] <= s[k]
  PROVE  SeqSum(r) <= SeqSum(s)
<1> DEFINE d == [k \in 1 .. Len(s) |-> s[k] - r[k]]
<1>1. d \in Seq(Nat) /\ d \in Seq(Int) /\ Len(d) = Len(s)
  OBVIOUS
<1>2. \A k \in 1 .. Len(s) : s[k] = r[k] + d[k]
  OBVIOUS
<1> HIDE DEF d
<1>3. SeqSum(s) = SeqSum(r) + SeqSum(d)
  BY <1>1, <1>2, SumPlus
<1>4. SeqSum(d) \in Nat /\ SeqSum(r) \in Int
  BY <1>1, SumNat, SumType
<1> QED BY <1>3, <1>4
============================================================================
