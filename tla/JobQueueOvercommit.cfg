SPECIFICATION QueueSpec
CONSTANTS
  j1 = j1
  j2 = j2
  j3 = j3
  Jobs <- MCJobs
  NoJob = NoJob
  Workers = {w1, w2, w3}
  MaxWorkers = 5
  IdModulus = 4
  FirstCounters = {0}
  UsedPriorities <- MCPriorities
  Content <- MCTwoEqual
  JobsAtOnce = 1
  QueuePriority = 1
  Lifo = FALSE
  CancelContents = {j1}
INVARIANT AtMostJobsAtOnce
CHECK_DEADLOCK FALSE
