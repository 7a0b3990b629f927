SPECIFICATION FairSpec
CONSTANTS
  Users = {u1, u2}
  MaxRevision = 3
  MaxSource = 3
  MaxClock = 1
  Backoff = 1
  Evidence <- MCEvidence
  StaleAt = 1
CONSTRAINT Bounded
CHECK_DEADLOCK FALSE
INVARIANTS
  TypeOK
  OneActive
  FeedShowsRows
  CursorCovers
PROPERTIES
  ImplementsLine
  StaleForGood
  PendingActivated
  Converges
