SPECIFICATION RestoreSpec
CONSTANTS
  Jobs = {j1}
  Dests = {}
  NoJob = NoJob
  MaxRows = 2
  Configs <- LocalConfig
  Runners = {r1}
  MaxConcurrent = 1
  Faults = {}
  MaxCrashes = 0
  Requests = {}
  Kinds = {}
  Options <- SomeOptions
  Restorers = {k1}
PROPERTIES RestoreKeepsStatus
CHECK_DEADLOCK FALSE
