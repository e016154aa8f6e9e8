SPECIFICATION IngestionSpec
CONSTANTS
  e1 = e1  e2 = e2  dm = dm
  alice = alice  a1 = a1  m1 = m1  m2 = m2
  None = None
  Event = {e1, e2}
  KeyEvent = {}
  Conversation = {dm}
  Sender = {alice}
  SigningKey = {a1}
  Message = {m1, m2}
  ConversationOf <- MCHome
  Canonical <- MCIds
  SenderOf <- MCSender
  MessageOf <- MCMessage
  KeyOf <- MCKey
  KeyEventOf <- MCKeyEvent
  OwnerOf <- MCOwner
  VersionOf <- MCVersion
  MaxAttempts = 2
  BatchSize = 2
  Limits = {2}
  FullDrain = 2
  HasKeyProvider = FALSE
  Faults = {}
  ArchiveOf <- MCArchive
  ListPages <- MCListPages
  PageSize = 1
  SliceLength = 2
  EventLimits = {3}
  PageLimits = {3}
  Clients = {{"runs", "pages"}}
  CountBound = 3
INVARIANTS ReadIsAccounted
