SPECIFICATION Spec
CONSTANTS
  Caller = {c1, c2}
  Ops <- Op
  MaxRuns = 2
  Key = {k1, k2}
SYMMETRY Symmetry
INVARIANTS TypeOK DecisionStands NoRetestWhileClosed OffersAreAccepted
PROPERTIES LegalMoves EveryMoveIsRecorded EntitledDecision HistoryTellsFrom TurnsAreAnnounced
