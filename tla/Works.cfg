\* Two orders, one recipe inspected and one not, beside a customer who buys,
\* reserves and waits for what they make.  Two orders and one hold are enough for
\* production and a customer to share the counter of one item.
CONSTANTS
  leg = leg
  chair = chair
  ann = ann
  walkin = walkin
  plain = plain
  inspected = inspected
  Item = {leg, chair}
  Client = {ann}
  WalkIn = walkin
  Purchase = {}
  Buys <- MCBuys
  Ordered <- MCOrdered
  Opening <- MCOpening
  Quantities = {1}
  Adjustments <- MCAdjustments
  MaxOnHand = 2
  MaxHolds = 1
  MaxSales = 1
  MaxRequests = 1
  Bom = {plain, inspected}
  Component <- MCComponent
  Output <- MCOutput
  PerUnit <- MCPerUnit
  NeedsQC = {inspected}
  Batches = {1, 2}
  MaxOrders = 2
  MaxInspections = 1
SPECIFICATION WorksSpec
INVARIANTS
  WorksTypeOK
  QuarantineIsPending
PROPERTIES
  OnlyIrregularRunsDrift
