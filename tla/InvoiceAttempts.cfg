SPECIFICATION Spec
CONSTANTS
  Invoices = {a}
  Nobody = Nobody
  Totals = {1}
  Amounts = {1}
  OtherAmounts = {2}
  MaxAttempts = 2
  MaxOpens = 1
  MaxSaves = 1
  MaxPayments = 1
  MaxOthers = 1
\* Every budget of the page and of the other user can be used up.
CHECK_DEADLOCK FALSE
INVARIANTS SubmitPaysOnce OnlyRacesOverpay
PROPERTIES NoLostEdit VoidedStaysPut
