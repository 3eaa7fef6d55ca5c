SPECIFICATION FairSpec
CONSTANTS
  p = p
  q = q
  c = c
  d = d
  Replies <- MCReplies
  Pieces <- MCPieces
  Sessions = {s1, s2}
  Lifetime = 3
  Margin = 1
  MaxNow = 4
  MaxIssued = 4
  MaxTrouble = 1
INVARIANTS
  RefusedOnlyIfLate
  LoginKept
  AnswerIsWhatWasSaid
PROPERTIES
  RequestsEnd
