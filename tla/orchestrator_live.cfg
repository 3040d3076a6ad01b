SPECIFICATION Spec
CONSTANTS
  MaxRuns = 1
  NJobs = 2
  MaxAttempts = 2
  MaxRejects = 2
  MaxFaults = 2
PROPERTY KeepsRunPromise
CHECK_DEADLOCK FALSE
