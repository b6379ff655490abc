CONSTANTS
  e1 = e1  e2 = e2
  Events = {e1, e2}
  Files = {e1, e2}
  Notifiers = {}
  AlwaysNotifiers = {}
  FileOf <- OwnFile
  Concurrency = 0
  RetainFiles = TRUE
  AlwaysStore = FALSE
  s1 = s1
  Sessions = {s1}
SPECIFICATION AppFairSpec
CONSTRAINT Alive
CHECK_DEADLOCK FALSE
INVARIANTS
  ExitLosesOnlyMissed
  ApiOutlivesPipeline
  CleanStopLosesNothing
  RetainedFilesStay
PROPERTIES
  UploadsSettle
  SignalEndsProcess
