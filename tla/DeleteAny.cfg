SPECIFICATION SystemSpec
CONSTANTS
  Jobs = {j1, j2}
  Dests = {d1}
  NoJob = NoJob
  MaxRows = 2
  Configs <- OneConfig
  Runners = {r1, r2}
  MaxConcurrent = 2
  Faults = {"put"}
  MaxCrashes = 0
  Requests = {q1}
  Kinds = {"finished execution", "running execution", "job", "destination"}
SYMMETRY Symmetry
INVARIANTS OthersKeepTheirCopies
\* Every job and destination may be deleted and every row used: nothing is left to do.
CHECK_DEADLOCK FALSE
