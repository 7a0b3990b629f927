SPECIFICATION Spec
CONSTANTS
  Writers = {w1, w2}
  NStages = 1
  Rebind = 1
  MaxVersion = 3
  MaxLeases = 1
SYMMETRY Symmetry
CHECK_DEADLOCK FALSE
PROPERTY
  StagesFollowTable
