SPECIFICATION Spec
CONSTANTS
  w1 = w1
  w2 = w2
  v1 = v1
  None = None
  Workers <- MCWorkers
  Vms <- MCVms
  Values <- MCValues
  Edits <- MCEdits
  Modes <- MCModes
  Tries = 2
  MaxRuns = 2
  MaxVersions = 1
CHECK_DEADLOCK FALSE
SYMMETRY Symmetry
INVARIANTS
  TypeOK
  StaleWasMissing
  RunsAreAttended
  ScheduledIsFresh
PROPERTIES
  
  AbsenceIsRemembered
  ImplementsSyncRecord
