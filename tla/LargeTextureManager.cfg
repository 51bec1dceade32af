SPECIFICATION TextureFairSpec
CONSTANTS
  c1 = c1
  c2 = c2
  c3 = c3
  p1 = p1
  p2 = p2
  Controls <- MCControls
  Path <- MCPath
  Jobs = {j1, j2}
  NoJob = NoJob
  Workers = {w1, w2}
  MaxWorkers = 4
  IdModulus = 4
  FirstCounters = {0}
  UsedPriorities <- MCNormal
INVARIANTS
  ReferencesAreHeld
  LoadsAreInFlight
PROPERTIES
  WantedImagesArrive
CHECK_DEADLOCK FALSE
