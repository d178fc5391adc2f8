SPECIFICATION CheckoutSpec
CONSTANTS
  Good = {old, new, next}
  OldGood = old
  MAX_RETRIES = 2
  MaxSubmissions = 2
  MaxCancels = 0
INVARIANTS
  GoodsLeaveSold
CHECK_DEADLOCK FALSE
