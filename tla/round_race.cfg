SPECIFICATION Spec
CONSTANTS
  Caller = {c1, c2}
  NRounds = 2
  NRemarks = 2
  MaxEvents = 4
CHECK_DEADLOCK FALSE
INVARIANT ClosedRoundIsSettled
