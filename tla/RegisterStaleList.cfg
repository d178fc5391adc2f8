SPECIFICATION RegisterSpec
CONSTANTS
  bolt = bolt
  nut = nut
  typo = typo
  Product = {bolt, nut}
  Term = {bolt, nut, typo}
  Sale = {sale}
  None = None
  MaxTyped = 0
  MaxMoves = 5
  Matches <- MCMatches
  LinesOf <- MCLinesOf
INVARIANTS
  EnterTakesAMatch
CHECK_DEADLOCK FALSE
