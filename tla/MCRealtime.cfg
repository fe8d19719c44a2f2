SPECIFICATION FairSpec
CONSTANTS
  Sockets = {s1, s2}
  LastId = 1
  MaxMounts = 2
  NoSocket = NoSocket
INVARIANTS
  TypeOK
  NoDuplicateRows
  LoggedOutStaysQuiet
PROPERTIES
  Reconnects
CHECK_DEADLOCK FALSE
