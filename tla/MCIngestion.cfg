SPECIFICATION FairSpec
CONSTANTS
  Workers = {w1, w2}
  Requests = {r1}
  MaxRetries = 0
  MaxVersion = 2
  MaxAsked = 2
  MaxCrashes = 0
  MaxLost = 0
  Stages = {"ocr"}
  NULL = NULL
INVARIANTS
  TypeOK
PROPERTIES
  IndexSpec
  DocumentSettles
  LatestJobSettles
CHECK_DEADLOCK FALSE
