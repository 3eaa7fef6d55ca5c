SPECIFICATION Spec
CONSTANTS
  Jobs = {j1}
  Settings <- SomeSettings
  MaxTime = 2
  MaxFires = 3
  MaxUpdates = 2
  MaxCrashes = 1
INVARIANTS
  NoOrphanRun
  ScheduleFollowsTable
  OneShotOnce
  RecordsAgree
PROPERTIES
  ToolCallsEnd
