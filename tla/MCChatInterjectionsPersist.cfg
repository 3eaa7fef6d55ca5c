SPECIFICATION Spec
CONSTANTS
  CheckpointEvery = 2
  BaseRounds = 3
  MaxNudges = 1
  MaxCalls = 1
  MaxInterjections = 1
INVARIANTS
  InterjectionsPersist
