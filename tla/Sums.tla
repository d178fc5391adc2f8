------------------------------- MODULE Sums -------------------------------
(***************************************************************************)
(* Totals over a sequence of integers: the SUM(...) of the queries in      *)
(* backend/reservations.py and backend/sale_reversal.py.  The total is a   *)
(* recursive function over prefixes, so that the proofs can reason about   *)
(* it by induction on the length of the prefix.                            *)
(***************************************************************************)
EXTENDS Integers, Sequences

\* The sum of the first n entries of s.
SumTo(s, n) ==
  LET total[k \in 0 .. Len(s)] == IF k = 0 THEN 0 ELSE total[k - 1] + s[k]
  IN  total[n]

SeqSum(s) == SumTo(s, Len(s))

\* What is left of x once it may not go below zero, as max(0, x) in the code.
AtLeastZero(x) == IF x > 0 THEN x ELSE 0

Lesser(x, y) == IF x <= y THEN x ELSE y
===========================================================================
