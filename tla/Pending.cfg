CONSTANTS
  None = None
  dm = dm
  alice = alice
  a1 = a1
  Event = {e1, e2, e3}
  KeyEvent = {}
  Conversation = {dm}
  Sender = {alice}
  SigningKey = {a1}
  Message = {}
  ConversationOf <- MCHome
  Canonical <- MCIds
  SenderOf <- MCSender
  MessageOf <- MCMessage
  KeyOf <- MCKey
  KeyEventOf <- MCKeyEvent
  OwnerOf <- MCOwner
  VersionOf <- MCVersion
  MaxAttempts = 1
  BatchSize = 2
  Limits = {2}
  Faults = {"infra"}
  FullDrain = 2
  HasKeyProvider = FALSE
SPECIFICATION PendingFair
INVARIANT RequestKept BackoffHeld
PROPERTY BacklogTried
CHECK_DEADLOCK FALSE
