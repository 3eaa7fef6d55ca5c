SPECIFICATION BackgroundSpec
CONSTANTS
  MaxInbox = 1
  MaxDeaths = 1
  Items = {i1, i2}
  Tasks = {t1}
  MaxAged = 1
  MaxFailures = 1
INVARIANTS
  RssAnnounces
  TasksReported
PROPERTIES
  Heard
