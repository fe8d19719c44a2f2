SPECIFICATION Spec
CONSTANTS
  p1 = p1
  p2 = p2
  Sessions = {s1}
  WorkOrders = {w1}
  Parts = {p1, p2}
  Quantities <- Qty1
  Minimums <- Qty1
  Deltas <- WholeUnits
  Backlog <- Lists
  MaxRequests = 5
  NULL = NULL
PROPERTIES
  TerminalIsFinal
  ClosedTakesNothing
CHECK_DEADLOCK FALSE
