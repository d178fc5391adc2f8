\* One purchase, received by two requests at once, corrected, voided and
\* interrupted while a customer buys, reserves and waits.
CONSTANTS
  lamp = lamp
  ann = ann
  po = po
  walkin = walkin
  Item = {lamp}
  Client = {ann}
  WalkIn = walkin
  Purchase = {po}
  Buys <- MCBuys
  Ordered <- MCOrdered
  Opening <- MCOpening
  Quantities = {1, 2}
  Adjustments <- MCAdjustments
  MaxOnHand = 3
  MaxHolds = 2
  MaxSales = 1
  MaxRequests = 2
SPECIFICATION ShopSpec
INVARIANTS
  TypeOK
  ReceiptCountedOnce
PROPERTIES
  ReceiptServesTheWaiting
