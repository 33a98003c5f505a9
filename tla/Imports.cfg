SPECIFICATION RestoreSpec
CONSTANTS
  Jobs = {j1}
  Dests = {}
  NoJob = NoJob
  MaxRows = 2
  Configs <- LocalConfig
  Runners = {r1}
  MaxConcurrent = 1
  Faults = {"put", "replay"}
  MaxCrashes = 0
  Requests = {q1}
  Kinds = {"finished execution", "running execution"}
  Options <- SomeOptions
  Restorers = {k1}
SYMMETRY Symmetry
INVARIANTS SafetyFirst JoblessKept
CHECK_DEADLOCK FALSE
