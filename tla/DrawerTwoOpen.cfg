SPECIFICATION DrawerSpec
CONSTANTS
  Amount = {1, 3}
  MaxSessions = 2
  MaxSales = 3
INVARIANTS
  OneOpenSession
CHECK_DEADLOCK FALSE
