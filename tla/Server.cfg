CONSTANTS
  Key = {k}
  Client = {c1, c2}
  MaxWrites = 3
  Call = {a, b}
  NoToken = NoToken
  EnvAccess = FALSE
  MaxToken = 2
  old = old
  new = new
  other = other
  Secret = {old, new, other}
  NoSecret = NoSecret
SPECIFICATION ServerFair
INVARIANT ServerTypeOK AckedIsDurable TokenSurvives StartedOpensRows OneSecret
PROPERTY StoreIsRegister Answered
