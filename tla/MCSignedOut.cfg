SPECIFICATION Spec
CONSTANTS
  Calls = {me, c1, c2, c3}
  Me = me
  RetryMayFail = TRUE
  MaxExpiries = 1
  MaxLosses = 0
  MaxRevocations = 0
  MaxTurned = 0
  NoToken = NoToken
INVARIANT
  StaysSignedIn
CHECK_DEADLOCK FALSE
