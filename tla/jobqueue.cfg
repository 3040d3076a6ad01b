SPECIFICATION Spec
CONSTANTS
  Proc = {p1, p2}
  NJobs = 2
  Kind = {"graph", "index_document", "notify_push"}
  Project = {"a"}
  Workload <- MCWorkload
  KindLimit <- MCKindLimit
  PairLimit <- MCPairLimit
  Concurrency = 2
  MaxAttempts = 2
  MaxFaults = 2
CHECK_DEADLOCK FALSE
INVARIANTS
  TypeOK
  DoneIsComplete
  LimitsHeld
PROPERTIES
  NeverTakenTwice
  KeepsThePromise
