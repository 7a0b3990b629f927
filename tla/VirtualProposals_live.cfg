SPECIFICATION FairSpec
CONSTANTS
  BuySignals = {b1}
  SellSignals = {s1}
  Positions = {}
  ProposalIds = {p1}
  WebSessions = {w1, w2}
  Executors = {e1}
  Nonces = {n1}
  NoSource = NoSource
  NoKey = NoKey
  NoRun = NoRun
  Ttl = 1
  QuoteAge = 1
  MaxClock = 2
  MaxToken = 2
  TradeDate <- MCTradeDate
  OpenTicks <- MCOpenTicks
PROPERTIES
  RequestsAnswered
