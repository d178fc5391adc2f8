SPECIFICATION CheckoutSpec
CONSTANTS
  Good = {old, new}
  OldGood = old
  MAX_RETRIES = 2
  MaxSubmissions = 2
  MaxCancels = 1
INVARIANTS
  CheckoutTypeOK
  OneSalePerPayment
  CorrectedOnce
  DoneIsRecorded
  TwiceOnlyUnseen
PROPERTIES
  ConfirmSettles
CHECK_DEADLOCK FALSE
