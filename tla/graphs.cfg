SPECIFICATION Spec
CONSTANTS
  Section = {s1, s2}
  Request = {q1, q2}
  FirstRequest = q1
  MaxAttempts = 2
  MaxIndexFaults = 1
  RETRIEVE_K = 1
  MAX_REWRITES = 2
  MAX_BIND_LOOPS = 1
  Original <- MCOriginal
  Retest <- MCRetest
  Line <- MCLine
  MaxLines = 4
  maxWords = 3
  overlapWords = 1
INVARIANTS TypeOK SectionsStaySearchable SoundProposal OutcomeHasGround ChunksKeepText
PROPERTIES PassEnds DocumentSettles
CHECK_DEADLOCK FALSE
