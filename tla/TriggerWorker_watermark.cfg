SPECIFICATION FairSpec
CONSTANTS
  Events = {1, 2}
  Source <- RunAfterRun
  Partition <- OneStock
  Runs = {r1, r2, r3}
  Pollers = {w}
  ByHand = {}
  Mortal = {}
  MaxEvents = 1
CONSTRAINT InOrder
CHECK_DEADLOCK FALSE
PROPERTIES
  PendingConsumed
