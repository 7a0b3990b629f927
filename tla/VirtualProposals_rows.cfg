SPECIFICATION Spec
CONSTANTS
  BuySignals = {b1}
  SellSignals = {}
  Positions = {h1}
  ProposalIds = {p1, p2}
  WebSessions = {w1, w2}
  Executors = {e1, e2}
  Nonces = {n1}
  NoSource = NoSource
  NoKey = NoKey
  NoRun = NoRun
  Ttl = 1
  QuoteAge = 1
  MaxClock = 4
  MaxToken = 3
  TradeDate <- MCTradeDate
  OpenTicks <- MCOpenTicks
SYMMETRY Symmetry
CONSTRAINT OneSourceAtATime
INVARIANTS
  TypeOK
  ConfirmedForCurrentOffer
  BuysTradeOnTheirDate
  OneLiveRowPerSource
  ProcessingIsOwned
  ExecutedIffTraded
  SalesCheckedBeforeExpiry
PROPERTIES
  FinalStaysFinal
  ImplementsAuthority
