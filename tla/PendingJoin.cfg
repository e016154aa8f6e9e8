CONSTANTS
  None = None
  dm = dm
  alice = alice
  a1 = a1
  Event = {e1, e2, e3}
  KeyEvent = {}
  Conversation = {dm}
  Sender = {alice}
  SigningKey = {a1}
  Message = {}
  ConversationOf <- MCHome
  Canonical <- MCIds
  SenderOf <- MCSender
  MessageOf <- MCMessage
  KeyOf <- MCKey
  KeyEventOf <- MCKeyEvent
  OwnerOf <- MCOwner
  VersionOf <- MCVersion
  MaxAttempts = 1
  BatchSize = 1
  Limits = {1, 3}
  Faults = {}
  FullDrain = 3
  HasKeyProvider = FALSE
SPECIFICATION PendingFair
PROPERTY BacklogTried
CHECK_DEADLOCK FALSE
