SPECIFICATION FairSpec
CONSTANTS
  p1 = p1
  p2 = p2
  Sessions = {s1, s2}
  WorkOrders = {w1, w2}
  Parts = {p1, p2}
  Quantities <- Qty1
  Minimums <- Qty0
  Deltas <- WholeUnits
  Backlog <- OppositeLists
  MaxRequests = 2
  NULL = NULL
INVARIANTS
  TypeOK
  LedgerMatches
  StockNonNegative
PROPERTIES
  CrossingAnnounced
  DefaultUseConsumed
  EveryRequestEnds
CHECK_DEADLOCK FALSE
