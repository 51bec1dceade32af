SPECIFICATION FairSpec
CONSTANTS
  Jobs = {j1}
  NoJob = NoJob
  Workers = {w1}
  MaxWorkers = 4
  IdModulus = 3
  FirstCounters = {0}
  UsedPriorities <- MCPausable
PROPERTY UnPausedJobsResume
CHECK_DEADLOCK FALSE
