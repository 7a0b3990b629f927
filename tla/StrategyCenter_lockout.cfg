SPECIFICATION Spec
CONSTANTS
  Users = {u1, u2}
  MaxRevision = 3
  MaxSource = 2
  MaxClock = 1
  Backoff = 1
  Evidence <- MCEvidence
  StaleAt = 1
CHECK_DEADLOCK FALSE
INVARIANTS
  SelectionStaysOpen
