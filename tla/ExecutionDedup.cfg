\* Two overlapping placements under one clientOrderId.
SPECIFICATION Spec
CONSTANTS
  Placements = {p1, p2}
  Clients = {c1}
  NoClient = NoClient
  Symbols = {s1}
  Quantities = {1}
  Modes = {"live"}
  MaxOrderSize = 1
  MaxPositionSize = 1
  MaxOrderValue = 1
  MaxPositionValue = 1
  MaxConcentrationPct = 25
  AllowShort = FALSE
  Requests <- AnyRequest
INVARIANTS
  RoutedOnce
