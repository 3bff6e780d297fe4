\* The kill switch is turned on while a placement waits for its price.
SPECIFICATION Spec
CONSTANTS
  Placements = {p1}
  Clients = {c1}
  NoClient = NoClient
  Symbols = {s1}
  Quantities = {1}
  Modes = {"paper", "live"}
  MaxOrderSize = 1
  MaxPositionSize = 1
  MaxOrderValue = 1
  MaxPositionValue = 1
  MaxConcentrationPct = 25
  AllowShort = FALSE
  Requests <- AnyRequest
PROPERTIES
  KillSwitchBlocks
