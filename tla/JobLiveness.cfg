SPECIFICATION MCSpec
CONSTANTS
  j1 = j1
  j2 = j2
  Jobs <- MCJobs
  NoJob = NoJob
  Workers = {w1, w2}
  MaxWorkers = 4
  IdModulus = 3
  FirstCounters = {0}
  UsedPriorities <- MCTwoPriorities
  Content <- MCDistinct
  JobsAtOnce = 1
  QueuePriority = 1
  Lifo = FALSE
  CancelContents = {}
PROPERTIES
  QueuedJobsLeaveTheQueue
  CancelJobsTerminates
  QueueDrains
CHECK_DEADLOCK FALSE
