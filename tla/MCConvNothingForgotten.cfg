SPECIFICATION Spec
CONSTANTS
  MinMessages = 4
  KeepRecent = 2
  Budget = 3
  UserCosts <- Short
  Cost <- UnitCost
  Replies <- ShortReplies
  MaxRows = 10
INVARIANTS
  NothingForgotten
