SPECIFICATION Spec
CONSTANTS
  x = x
  y = y
  NL = NL
  Callers = {"turn", "heartbeat"}
  Triples = {f, g}
  Days = {d}
  MaxCalls = 4
  Responses <- MCResponses
  AllFine <- MCAllFine
  Footers <- MCFooters
  MaxLen = 3
  Minutes = {420, 480, 1380}
  OpensAt = 480
  ClosesAt = 1380
  MaxTrouble = 2
INVARIANTS
  FactsConsistent
  ChunksMakeMessage
  FilterMatchesRoom
PROPERTIES
  TicksGoOn
