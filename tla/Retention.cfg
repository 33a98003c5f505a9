SPECIFICATION Spec
CONSTANTS
  Jobs = {j1}
  Dests = {d1}
  NoJob = NoJob
  MaxRows = 3
  Configs <- RetentionConfigs
  Runners = {r1, r2}
  MaxConcurrent = 1
  Faults = {"dump", "put"}
  MaxCrashes = 0
SYMMETRY RunnerSymmetry
INVARIANTS OneRunPerJob RecordedCopiesExist KeepLastBound DeletedHoldsNoFile NoOrphans RunningRowHasRun
PROPERTIES HistorySpec
