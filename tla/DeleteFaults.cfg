SPECIFICATION SystemSpec
CONSTANTS
  Jobs = {j1}
  Dests = {d1}
  NoJob = NoJob
  MaxRows = 2
  Configs <- OneConfig
  Runners = {r1}
  MaxConcurrent = 1
  Faults = {"insert", "query", "dump", "put", "mark", "update", "delete"}
  MaxCrashes = 1
  Requests = {q1}
  Kinds = {"finished execution", "running execution", "job", "destination"}
INVARIANTS SystemInv RowsBelongToJobs
\* Every job and destination may be deleted and every row used: nothing is left to do.
CHECK_DEADLOCK FALSE
