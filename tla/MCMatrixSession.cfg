SPECIFICATION FairSpec
CONSTANTS
  MaxEvents = 2
  MaxKills = 2
  MaxStops = 1
  MaxRaises = 1
  MaxTokens = 3
INVARIANTS
  HandedOnceInOrder
  TokensSettled
  DevicesKept
PROPERTIES
  AllSettled
