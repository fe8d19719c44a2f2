SPECIFICATION Spec
CONSTANTS
  p1 = p1
  p2 = p2
  Sessions = {s1, s2}
  WorkOrders = {w1}
  Parts = {p1, p2}
  Quantities <- Qty12
  Minimums <- Qty1
  Deltas <- WholeUnits
  Backlog <- Lists
  MaxRequests = 2
  NULL = NULL
PROPERTIES
  ConsumedOnce
CHECK_DEADLOCK FALSE
