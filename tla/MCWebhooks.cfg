SPECIFICATION FairSpec
CONSTANTS
  Deliveries = {d1}
  Workers = {w1, w2, w3}
  Backoffs = 2
  MaxCrashes = 1
  MaxManual = 1
  NULL = NULL
INVARIANTS
  TypeOK
  AlwaysDriven
  SerialPosts
PROPERTIES
  EverySettles
CHECK_DEADLOCK FALSE
