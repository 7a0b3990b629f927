SPECIFICATION Spec
CONSTANTS
  Writers = {w1}
  NStages = 1
  Rebind = 1
  MaxVersion = 6
  MaxLeases = 1
SYMMETRY Symmetry
CHECK_DEADLOCK FALSE
INVARIANT
  CanaryIsLater
