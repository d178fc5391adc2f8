----------------------------- MODULE MCRegister -----------------------------
(* Two products, a term that finds each, and one term that finds nothing. *)
EXTENDS Register

CONSTANTS bolt, nut, typo

MCMatches == [t \in Term |-> {t} \ {typo}]
MCLinesOf == [s \in Sale |-> bolt]
=============================================================================
