SPECIFICATION FairSpec
CONSTANTS
  Calls = {me, c1, c2}
  Me = me
  RetryMayFail = FALSE
  MaxExpiries = 1
  MaxLosses = 1
  MaxRevocations = 1
  MaxTurned = 1
  NoToken = NoToken
INVARIANTS
  TypeOK
  OneRefresh
  StaysSignedIn
  LogoutIsFinal
PROPERTIES
  SilentRefresh
CHECK_DEADLOCK FALSE
