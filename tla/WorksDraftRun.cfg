\* An order that nobody confirmed is reported as built over a customer's hold.
CONSTANTS
  leg = leg
  chair = chair
  ann = ann
  walkin = walkin
  plain = plain
  inspected = inspected
  Item = {leg, chair}
  Client = {ann}
  WalkIn = walkin
  Purchase = {}
  Buys <- MCBuys
  Ordered <- MCOrdered
  Opening <- MCOpening
  Quantities = {1, 2}
  Adjustments <- MCAdjustments
  MaxOnHand = 2
  MaxHolds = 2
  MaxSales = 1
  MaxRequests = 1
  Bom = {plain, inspected}
  Component <- MCComponent
  Output <- MCOutput
  PerUnit <- MCPerUnit
  NeedsQC = {inspected}
  Batches = {2}
  MaxOrders = 1
  MaxInspections = 1
SPECIFICATION WorksSpec
INVARIANTS
  CounterCoversTheHolds
