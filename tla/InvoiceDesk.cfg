SPECIFICATION Spec
CONSTANTS
  Invoices = {a, b}
  Nobody = Nobody
  Totals = {1}
  Amounts = {1}
  OtherAmounts = {2}
  MaxAttempts = 1
  MaxOpens = 2
  MaxSaves = 1
  MaxPayments = 1
  MaxOthers = 1
SYMMETRY Alike
\* Every budget of the page and of the other user can be used up.
CHECK_DEADLOCK FALSE
INVARIANTS DeskTypeOK BusyHasReason OnlyLateAnswersMix
