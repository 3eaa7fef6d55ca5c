SPECIFICATION Spec
CONSTANTS
  MinMessages = 4
  KeepRecent = 3
  Budget = 4
  UserCosts <- ShortOrLong
  Cost <- UnitCost
  Replies <- AllReplies
  MaxRows = 10
INVARIANTS
  WellFormed
  RequestHasMessage
PROPERTIES
  CompactionAtomic
