SPECIFICATION DrainFair
CONSTANTS
  e1 = e1  e2 = e2  k1 = k1  dm = dm  raw = raw
  alice = alice  bob = bob  a1 = a1  a2 = a2  b1 = b1
  m1 = m1  m2 = m2
  None = None
  Event = {e1, e2}
  KeyEvent = {k1}
  Conversation = {dm}
  Sender = {alice, bob}
  SigningKey = {a1, a2, b1}
  Message = {m1, m2}
  ConversationOf <- MCHome
  Canonical <- MCCanonical
  SenderOf <- MCSender
  MessageOf <- MCMessage
  KeyOf <- MCKey
  KeyEventOf <- MCKeyEvent
  OwnerOf <- MCOwner
  VersionOf <- MCVersion
  MaxAttempts = 2
  BatchSize = 2
  Limits = {1, 2}
  FullDrain = 2
  HasKeyProvider = FALSE
  Faults = {}
INVARIANTS GivenUpIsUnreadable
PROPERTIES RequestServed SettlesWhenCalm
