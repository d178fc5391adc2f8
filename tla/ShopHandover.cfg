\* A handover that takes the stock another customer is holding.
CONSTANTS
  lamp = lamp
  ann = ann
  bob = bob
  walkin = walkin
  Item = {lamp}
  Client = {ann, bob}
  WalkIn = walkin
  Purchase = {}
  Buys <- MCBuys
  Ordered <- MCOrdered
  Opening <- MCEmpty
  Quantities = {1}
  Adjustments <- MCArrivals
  MaxOnHand = 2
  MaxHolds = 4
  MaxSales = 2
  MaxRequests = 1
SYMMETRY Symmetry
SPECIFICATION ShopSpec
PROPERTIES
  HandoversSpareOthersHolds
