SPECIFICATION LoaderSpec
CONSTANTS
  Term = {none, bolt}
  Filter = {all, open}
  Page = {1, 2}
  NoData = NoData
  MAX_RETRIES = 2
  MaxMoves = 2
  MaxVersion = 1
INVARIANT
  ShownIsAsked
CHECK_DEADLOCK FALSE
