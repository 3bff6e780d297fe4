\* Overlapping placements, overlapping alert cycles, overlapping reads; each component in turn.
SPECIFICATION DeskSpec
CONSTANTS
  Placements = {p1, p2}
  Clients = {c1}
  NoClient = NoClient
  Symbols = {s1}
  Quantities = {0, 1, 2}
  Modes = {"paper", "live"}
  MaxOrderSize = 2
  MaxPositionSize = 2
  MaxOrderValue = 2
  MaxPositionValue = 2
  MaxConcentrationPct = 75
  AllowShort = TRUE
  Requests <- SomeRequests
  NoValue = NoValue
  AlertSymbols = {s1}
  AlertObjects <- TwoRules
  Cooldown = 1
  MarketData <- Quotes
  Opening <- Low
  Fetches <- AllButPrice
  Cycles = {y1, y2}
  MaxHistory = 2
  MaxObjects = 2
  MaxTime = 1
  MaxMoves = 1
  BookSymbols = {b1, b2}
  BookOrders <- SomeOrders
  BookPrices = {4, 9}
  OrderLimit = 2
  PositionLimit = 3
  LossLimit = 5
  MaxPaperFills = 3
  MaxDays = 2
  MaxCrossings = 1
  p1 = p1
  p2 = p2
  y1 = y1
  y2 = y2
  b1 = b1
  b2 = b2
  spy = spy
  qqq = qqq
  d1 = d1
  d2 = d2
  MacroIds = {d1, d2}
  Contents <- SomeContents
  NoContent = NoContent
  Queries <- SomeQueries
  MacroSymbols = {spy, qqq}
  NoSymbol = NoSymbol
  ReturnScale = 4
  RuleIds = {rs1}
  NoRuleSet = NoRuleSet
  Absent = Absent
  Null = Null
  SentConditions <- SomeConditions
  SentGroups <- SomeGroups
  Detections <- SomeDetections
  CandleDays <- SomeDays
  MaxChanges = 1
SYMMETRY DeskSymmetry
CHECK_DEADLOCK FALSE
INVARIANTS
  DeskTypeOK
  PositionsBounded
  FillsKept
  AlertsHonest
  ReturnsFollowDays
  NoDataNeverPasses
  SummaryAddsUp
PROPERTIES
  FinalStays
