SPECIFICATION TeamSpec
CONSTANTS
  Caller = {c1, c2}
  NRounds = 2
  NRemarks = 2
  MaxEvents = 4
  MaxNotes = 3
  PAGE = 1
  MaxTurns = 2
  MaxDecisions = 2
  Card = {k1, k2}
  FirstCard = k1
  MaxSteps = 3
  MaxLoads = 2
  MaxPipe = 3
  Tab = {t1, t2}
  Notice = {n1}
  Journal <- MCJournal
  MaxRows = 2
  MaxFilings = 1
SYMMETRY Symmetry
INVARIANTS TeamTypeOK RoundsAreSound BellAgrees DecisionIsKept CardTells ImportIsAccounted
PROPERTIES OpensUndisturbed OneTabActs NavigationLands
CHECK_DEADLOCK FALSE
