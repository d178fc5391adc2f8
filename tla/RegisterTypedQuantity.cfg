SPECIFICATION RegisterSpec
CONSTANTS
  bolt = bolt
  nut = nut
  typo = typo
  Product = {bolt, nut}
  Term = {bolt, nut, typo}
  Sale = {sale}
  None = None
  MaxTyped = 2
  MaxMoves = 3
  Matches <- MCMatches
  LinesOf <- MCLinesOf
INVARIANTS
  QuantitiesAsMeant
CHECK_DEADLOCK FALSE
