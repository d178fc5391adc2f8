\* Two customers and a walk-in at the counter; stock arrives by adjustment.
\* Two sales, two holds and two units are enough for a promise behind a promise,
\* a hold drawn in part, and a sale to one customer over the hold of another.
CONSTANTS
  lamp = lamp
  ann = ann
  bob = bob
  walkin = walkin
  Item = {lamp}
  Client = {ann, bob}
  WalkIn = walkin
  Purchase = {}
  Buys <- MCBuys
  Ordered <- MCOrdered
  Opening <- MCOpening
  Quantities = {1, 2}
  Adjustments <- MCAdjustments
  MaxOnHand = 2
  MaxHolds = 2
  MaxSales = 2
  MaxRequests = 1
SYMMETRY Symmetry
SPECIFICATION ShopSpec
INVARIANTS
  TypeOK
  CounterIsTheHolds
  PromisesAddUp
  SaleMovementsNetOut
PROPERTIES
  SalesSpareOthersHolds
  OldestPromiseFirst
