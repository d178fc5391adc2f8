SPECIFICATION CheckoutSpec
CONSTANTS
  Good = {old, new}
  OldGood = old
  MAX_RETRIES = 2
  MaxSubmissions = 2
  MaxCancels = 0
INVARIANTS
  CorrectionsReplace
CHECK_DEADLOCK FALSE
