SPECIFICATION Spec
CONSTANTS
  Runs = {r1}
  Prices = {1, 2}
  NoQuote = NoQuote
  NotReady = NotReady
  MaxMinute = 3
  MaxProposals = 1
  MaxEpisode = 1
  DateOf <- MCDateOf
  Session <- MCSession
  Window <- MCWindow
  Closed <- MCClosed
  Programs = {FALSE}
SYMMETRY Symmetry
CHECK_DEADLOCK FALSE
PROPERTY
  BreachesAreConfirmed
