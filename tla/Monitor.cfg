SPECIFICATION FairMonitorSpec
CONSTANTS
  Databases = {d1, d2}
  Steady = {d2}
  Intervals = {0, 1}
  Default = 1
  Unset = Unset
  NoDatabase = NoDatabase
  Snapshots <- SomeSnapshots
  Retries = 1
  Handlers = {h1}
  MaxSetters = 1
  MaxEvents = 2
INVARIANTS MonitorTypeOK StateMatchesIncidents CancellationIsNoDowntime NoLostKick StoredIsInForce
PROPERTIES OneIncidentPerDowntime UpIsShown StopReturns
