\* A partially filled order refuses its next partial fill.
SPECIFICATION Spec
CONSTANTS
  o1 = o1
  o2 = o2
  c1 = c1
  c2 = c2
  NoParent = NoParent
  OrderIds = {o1}
  ClientIds = {c1}
  Families <- NoFamily
  Modes = {"paper"}
  Quantities = {3}
  Amounts = {0, 1, 2}
  NaN = NaN
  Runs = {r1}
  ReuseOrderIds = FALSE
  MaxEvents = 5
INVARIANTS
  WorkingFillsAccepted
