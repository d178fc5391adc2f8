SPECIFICATION CheckoutSpec
CONSTANTS
  Good = {old, new}
  OldGood = old
  MAX_RETRIES = 2
  MaxSubmissions = 2
  MaxCancels = 0
INVARIANTS
  OneSalePerKey
CHECK_DEADLOCK FALSE
