SPECIFICATION Spec
CONSTANTS
  Caller = {c1, c2}
  Ops <- Op
  MaxRuns = 2
  Key = {k1, k2}
SYMMETRY Symmetry
PROPERTY FailureKeepsProposal
