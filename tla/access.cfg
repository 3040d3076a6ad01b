SPECIFICATION Spec
CONSTANTS
  User = {u1, u2}
  Call = {c1, c2}
  Device = {d1}
  Desk = {k1, k2}
  MaxClock = 2
  MaxPasswords = 2
  MaxBumps = 2
SYMMETRY Symmetry
INVARIANTS TypeOK PmLostOnlyByOverlap RoomRoleIsCurrent SessionsAreCurrent
PROPERTY RemovedStaysOut
CHECK_DEADLOCK FALSE
