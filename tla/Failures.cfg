SPECIFICATION FairSpec
CONSTANTS
  Jobs = {j1, j2}
  Dests = {d1}
  NoJob = NoJob
  MaxRows = 2
  Configs <- OneConfig
  Runners = {r1, r2}
  MaxConcurrent = 1
  Faults = {"insert", "query", "dump", "put", "update", "delete"}
  MaxCrashes = 1
INVARIANTS Inv HistoryInv NewestIntact DumpCap
PROPERTIES RunEnds
