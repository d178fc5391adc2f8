\* A receipt that dies between its two transactions, and is sent again.
CONSTANTS
  lamp = lamp
  ann = ann
  po = po
  walkin = walkin
  Item = {lamp}
  Client = {ann}
  WalkIn = walkin
  Purchase = {po}
  Buys <- MCBuys
  Ordered <- MCOrdered
  Opening <- MCOpening
  Quantities = {2}
  Adjustments <- MCAdjustments
  MaxOnHand = 3
  MaxHolds = 1
  MaxSales = 1
  MaxRequests = 1
SPECIFICATION ShopSpec
INVARIANTS
  ReceivedMeansCredited
