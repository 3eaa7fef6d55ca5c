SPECIFICATION FairSpec
CONSTANTS
  CheckpointEvery = 2
  BaseRounds = 1
  MaxNudges = 1
  MaxCalls = 2
  MaxInterjections = 2
INVARIANTS
  WellFormed
  ExitGate
  AnswersDelivered
PROPERTIES
  Terminates
