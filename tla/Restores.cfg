SPECIFICATION RestoreSpec
CONSTANTS
  Jobs = {j1}
  Dests = {d1}
  NoJob = NoJob
  MaxRows = 2
  Configs <- BothConfig
  Runners = {r1}
  MaxConcurrent = 1
  Faults = {"insert", "put", "replay", "query", "update"}
  MaxCrashes = 1
  Requests = {}
  Kinds = {}
  Options <- SafeOptions
  Restorers = {k1, k2}
SYMMETRY Symmetry
INVARIANTS RestoreInv LiveProgressOwned
CHECK_DEADLOCK FALSE
