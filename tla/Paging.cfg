CONSTANTS
  Time = {1, 2, 3}
  Id = {1, 2}
  PageMost = 2
  Sizes = {1, 2}
  ScanLimits = {1, 3, 5}
  Matching <- MCMatching
  MaxRows = 5
SPECIFICATION PagingSpec
INVARIANT EachRowOnce XChatPagesComplete OnlyTiesMissing SearchFindsAll
