SPECIFICATION FairSchedulerSpec
CONSTANTS
  daily = daily
  broken = broken
  tokyo = tokyo
  MaxJobs = 2
  Schedules = {daily, broken}
  Malformed = {broken}
  NoSchedule = NoSchedule
  Zones = {tokyo}
  Offsets <- SomeOffsets
  Nowhere = Nowhere
  Absent = Absent
  NoEntry = NoEntry
  NoJob = NoJob
  Forms <- SomeForms
  Snapshots <- SomeSnapshots
  Handlers = {h1}
  Overlap = FALSE
  MaxFires = 1
  MaxEvents = 2
INVARIANTS SchedulerInv OffsetKept ExitCutsNoRun
PROPERTIES ShutdownEnds
CHECK_DEADLOCK FALSE
