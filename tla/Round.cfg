SPECIFICATION Spec
CONSTANTS
  N = 4
  BatchSize = 2
  Missing = {}
  Lists <- MCLists
  Prefetch = TRUE
  MaxRuns = 2
  MaxStops = 1
INVARIANTS
  PreparedFilesAtLaunch
  NothingPreparedIsSkipped
  FewAppsOnDisk
PROPERTIES
  GuardDecides
  KeepsLedger
  RunEnds
CHECK_DEADLOCK FALSE
