\* The same order, never reused: is a terminal status final?
SPECIFICATION Spec
CONSTANTS
  o1 = o1
  o2 = o2
  c1 = c1
  c2 = c2
  NoParent = NoParent
  OrderIds = {o1}
  ClientIds = {c1}
  Families <- NoFamily
  Modes = {"live"}
  Quantities = {1, 2}
  Amounts = {1, 2}
  NaN = NaN
  Runs = {r1, r2}
  ReuseOrderIds = FALSE
  MaxEvents = 5
PROPERTIES
  TerminalIsFinal
