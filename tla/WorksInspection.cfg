\* A batch passes inspection while a customer is waiting for it.
CONSTANTS
  leg = leg
  chair = chair
  ann = ann
  walkin = walkin
  plain = plain
  inspected = inspected
  Item = {leg, chair}
  Client = {ann}
  WalkIn = walkin
  Purchase = {}
  Buys <- MCBuys
  Ordered <- MCOrdered
  Opening <- MCOpening
  Quantities = {1}
  Adjustments <- MCAdjustments
  MaxOnHand = 2
  MaxHolds = 1
  MaxSales = 1
  MaxRequests = 1
  Bom = {plain, inspected}
  Component <- MCComponent
  Output <- MCOutput
  PerUnit <- MCPerUnit
  NeedsQC = {inspected}
  Batches = {1}
  MaxOrders = 1
  MaxInspections = 1
SPECIFICATION WorksSpec
PROPERTIES
  OutputServesTheWaiting
