\* Backtests, charts, the prediction service, trainings, AI jobs, the toolkit and assets; each component in turn.
SPECIFICATION AnalysisSpec
CONSTANTS
  Candles <- SomeCandles
  DemoSeries <- SomeDemo
  Configs <- OneConfig
  Signals <- SomeSignals
  Splits <- OneSplit
  Bonuses = {12}
  MaxCandles = 4
  MaxCandidates = 2
  MaxRuns = 1
  LastDay = 3
  Weekend = {2}
  Ticks <- SomeTicks
  Charts <- SomeCharts
  Cluster = 2
  MaxLevels = 2
  BinCounts = {5}
  MaxTicks = 3
  Callers = {c1, c2}
  Operators = {op}
  MaxWorkers = 2
  Pipelines = {pr1, pr2}
  SignalSymbols = {s1}
  Loaders = {w1}
  Recorders = {r1, r2}
  MaxTrainings = 2
  BarFiles <- SomeFiles
  Horizons = {1, 2, 3}
  Ratios <- SomeRatios
  NoPrice = NoPrice
  Tau = 5
  NoLabel = NoLabel
  NoPrepared = NoPrepared
  FeatureRecords = {f1, f2}
  AiJobs = {j1, j2}
  LabelHorizon = 1
  FewestRows = 2
  MaxClock = 3
  c1 = c1
  c2 = c2
  pr1 = pr1
  pr2 = pr2
  f1 = f1
  f2 = f2
  j1 = j1
  j2 = j2
  sym = sym
  other = other
  None = None
  NaN = NaN
  Wild = Wild
  Unit = 10
  TradingDays = 4
  Modes = {paper}
  KellyInputs <- MCKellyInputs
  VolatilityInputs <- MCVolatilityInputs
  Books <- MCBooks
  ShockSets <- MCShockSets
  MaxRows = 3
  stock = stock
  bond = bond
  bench = bench
  Symbols = {stock, bond, bench}
  Bad = Bad
  Missing = Missing
  CloseLevels = {0, 1}
  Histories <- MCHistories
  Queries <- MCQueries
  Extra <- MCExtra
  Whole = 4
  Most = 4
  LastClose = 1
SYMMETRY AnalysisSymmetry
CHECK_DEADLOCK FALSE
INVARIANTS
  AnalysisTypeOK
  BacktestHonest
  FlowConserved
  CallsAccounted
  RegistryAgrees
  EveryRowOnce
  JobsHonest
  ToolkitKept
  AmountsHonest
  AssetsHonest
