SPECIFICATION Spec
CONSTANTS
  Writers = {w1, w2}
  NStages = 3
  Rebind = 2
  MaxVersion = 11
  MaxLeases = 1
SYMMETRY Symmetry
CONSTRAINT ShortFile
ACTION_CONSTRAINT NoOldDecisions
CHECK_DEADLOCK FALSE
INVARIANTS
  TypeOK
  StagesInOrder
  EvaluatorWaits
  ClosedAfterAllPassed
PROPERTIES
  ImplementsStageLine
