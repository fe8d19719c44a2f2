SPECIFICATION FairSpec
CONSTANTS
  Workers = {w1, w2}
  Requests = {r1}
  MaxRetries = 1
  MaxVersion = 2
  MaxAsked = 1
  MaxCrashes = 1
  MaxLost = 1
  Stages = {"ocr", "extracting", "graphing"}
  NULL = NULL
PROPERTIES
  DocumentSettles
CHECK_DEADLOCK FALSE
