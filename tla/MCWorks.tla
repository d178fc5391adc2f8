------------------------------ MODULE MCWorks ------------------------------
(***************************************************************************)
(* Small instances of Works for TLC: chairs are made of legs.              *)
(***************************************************************************)
EXTENDS Works, TLC

CONSTANTS leg, chair

MCBuys == [p \in Purchase |-> leg]
MCOrdered == [p \in Purchase |-> 1]
MCOpening == (leg :> 2) @@ (chair :> 0)
MCAdjustments == {}
MCComponent == [b \in Bom |-> leg]
MCOutput == [b \in Bom |-> chair]
MCPerUnit == [b \in Bom |-> 1]
===========================================================================
