SPECIFICATION Spec
CONSTANTS
  Jobs = {j1, j2, j3}
  NoJob = NoJob
  Workers = {w1, w2, w3}
  MaxWorkers = 4
  IdModulus = 4
  FirstCounters = {0, 2}
  UsedPriorities <- MCTwoPriorities
SYMMETRY MCSymmetry
INVARIANTS
  RoomForHigherPriority
  NoDanglingJob
  OneOwner
  NoStrandedJob
  QuietAfterCancelJobs
  IdsIdentifyJobs
PROPERTIES
  MostUrgentFirst
  ImplementsService
CHECK_DEADLOCK FALSE
