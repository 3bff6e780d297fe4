SPECIFICATION Spec
CONSTANTS
  polygon = polygon
  ibkr = ibkr
  yahoo = yahoo
  demo = demo
  SPY = SPY
  NoProvider = NoProvider
  Providers = {polygon, ibkr, yahoo, demo}
  Keyed = {polygon, ibkr}
  Gateway = {ibkr}
  Demo = demo
  Default = yahoo
  KeyInputs = {polygon}
  Selections <- MCSelections
  Environments <- MCEnvironments
  Symbols = {SPY}
  Priority <- MCPriority
  Supports <- MCSupports
  Sockets = {polygon}
  Pollers = {yahoo}
INVARIANTS
  TypeOK
  ServedByItsProvider
PROPERTIES
  SelectionKept
  FailoverForward
  StreamMovesOn
