SPECIFICATION Spec
CONSTANTS
  MaxRuns = 2
  NJobs = 2
  MaxAttempts = 1
  MaxRejects = 1
  MaxFaults = 1
INVARIANTS TypeOK TriagingIsWorkedOn RejectionIsHeard
CHECK_DEADLOCK FALSE
