CONSTANTS
  Caller = {c1, c2}
  Identity = {i1, i2}
  KeyList = {k1, k2}
  None = None
  MaxSessions = 3
SPECIFICATION Spec
INVARIANT VerifiedWithOwnKeys
CHECK_DEADLOCK FALSE
