SPECIFICATION Spec
CONSTANTS
  Stocks = {SH, SZ}
  ProposalIds = {p1, p2, p3, p4, p5}
  Prices = {2, 3}
  Budget = 6
  InitialCash = 11
  MaxDate = 4
  OpenDates <- MCOpenDates
SYMMETRY Symmetry
CHECK_DEADLOCK FALSE
INVARIANTS TypeOK CashMatchesTrades PositionMatchesLots EpisodesBalance SoldWereHeldOvernight
PROPERTIES ImplementsSettlement
