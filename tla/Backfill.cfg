CONSTANTS
  dm = dm
  group = group
  None = None
  Conversation = {dm, group}
  Archive <- MCArchive
  ListPages <- MCListPages
  PageSize = 2
  SliceLength = 2
  EventLimits = {2, 9}
  PageLimits = {3, 9}
  Clients = {{}, {"pages"}, {"pages", "runs"}}
  CountBound = 6
SPECIFICATION FairSpec
INVARIANT BackfillTypeOK CheckpointBehindIngestion CompletedMeansRead WithinLimits ChargedOnce
PROPERTY NeverBackwards JobFinishes
CHECK_DEADLOCK FALSE
