SPECIFICATION Spec
CONSTANTS
  Runs = {r1, r2}
  Prices = {1, 2}
  NoQuote = NoQuote
  NotReady = NotReady
  MaxMinute = 7
  MaxProposals = 2
  MaxEpisode = 2
  DateOf <- MCDateOf
  Session <- MCSession
  Window <- MCWindow
  Closed <- MCClosed
  Programs = {TRUE, FALSE}
SYMMETRY Symmetry
CONSTRAINT LateMinutesAlone
CHECK_DEADLOCK FALSE
INVARIANTS
  TypeOK
  OneStopPerEpisode
  StopsFollowBreaches
  RearmNeedsRecovery
  FrozenForItsEpisode
PROPERTY
  ImplementsOrders
