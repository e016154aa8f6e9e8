CONSTANTS
  Caller = {c1, c2, c3}
  Identity = {i1, i2}
  KeyList = {k1, k2}
  None = None
  MaxSessions = 3
SPECIFICATION Spec
INVARIANT OneUnlock
PROPERTY OwnKeysUnlessStrayed
CHECK_DEADLOCK FALSE
