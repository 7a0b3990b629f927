SPECIFICATION FairSpec
CONSTANTS
  Events = {1, 2, 3, 4}
  Source <- OneRun
  Partition <- TwoStocks
  Runs = {r1, r2}
  Pollers = {w, h}
  ByHand = {h}
  Mortal = {w, h}
  MaxEvents = 2
CONSTRAINT LateFirst
CHECK_DEADLOCK FALSE
INVARIANTS
  TypeOK
  EmittedOnce
  CheckpointIsNewest
PROPERTIES
  ImplementsLedger
  ChildrenEnd
