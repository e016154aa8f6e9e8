CONSTANTS
  person = person
  group = group
  None = None
  Target = {person, group}
  Archive <- MCArchive
  Wanted <- MCWanted
  PageSize = 2
  SliceLength = 2
  Limits <- MCLimits
  StartPages = 2
  MaxPosted = 2
SPECIFICATION LegacyFair
INVARIANT TokenBehindEvents CompletedMeansEnded WithinLimits RecentComplete
PROPERTY PauseHolds LegacyFinishes
