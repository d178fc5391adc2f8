SPECIFICATION RegisterSpec
CONSTANTS
  bolt = bolt
  nut = nut
  typo = typo
  Product = {bolt, nut}
  Term = {bolt, nut, typo}
  Sale = {sale}
  None = None
  MaxTyped = 2
  MaxMoves = 6
  Matches <- MCMatches
  LinesOf <- MCLinesOf
INVARIANTS
  RegisterTypeOK
  OnlyTypedQuantitiesDrift
  CheckoutIsPayable
CHECK_DEADLOCK FALSE
