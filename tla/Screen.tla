------------------------------- MODULE Screen -------------------------------
(***************************************************************************)
(* What a list screen promises its reader: it asks for something, and      *)
(* while it is not busy it either shows what was asked for last or says    *)
(* that it could not be had.  Asking again replaces the question; a        *)
(* question that is not replaced is settled.  Loader implements it.        *)
(***************************************************************************)
CONSTANTS
  Question,      \* what can be asked for
  Nothing        \* on the screen before the first answer

VARIABLES asked, shown, busy, failed

vars == <<asked, shown, busy, failed>>

Init ==
  /\ asked \in Question
  /\ shown = Nothing
  /\ busy = TRUE
  /\ failed = FALSE

(* A new question, or the same one once more. *)
Ask ==
  /\ asked' \in Question
  /\ busy' = TRUE
  /\ failed' = FALSE
  /\ UNCHANGED shown

Show ==
  /\ busy
  /\ shown' = asked
  /\ busy' = FALSE
  /\ UNCHANGED <<asked, failed>>

GiveUp ==
  /\ busy
  /\ failed' = TRUE
  /\ busy' = FALSE
  /\ UNCHANGED <<asked, shown>>

Settle == Show \/ GiveUp

Next == Ask \/ Settle

Spec == Init /\ [][Next]_vars /\ WF_vars(Settle)
=============================================================================
