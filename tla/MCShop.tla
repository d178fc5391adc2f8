------------------------------ MODULE MCShop ------------------------------
(***************************************************************************)
(* Small instances of Shop for TLC.                                        *)
(***************************************************************************)
EXTENDS Shop, TLC

MCBuys == [p \in Purchase |-> CHOOSE i \in Item : TRUE]
MCOrdered == [p \in Purchase |-> 2]
MCOpening == [i \in Item |-> 1]
MCAdjustments == {-1, 1}
MCArrivals == {1}
MCEmpty == [i \in Item |-> 0]

\* Customers differ only by name.
Symmetry == Permutations(Client)
===========================================================================
