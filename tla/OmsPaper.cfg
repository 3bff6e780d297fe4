\* Paper orders: a parent with a leg, canceled, filled, polled and lost with the paper engine.
SPECIFICATION Spec
CONSTANTS
  o1 = o1
  o2 = o2
  c1 = c1
  c2 = c2
  NoParent = NoParent
  OrderIds = {o1, o2}
  ClientIds = {c1, c2}
  Families <- Leg
  Modes = {"paper"}
  Quantities <- Signed
  Amounts <- Amounted
  NaN = NaN
  Runs = {r1}
  ReuseOrderIds = FALSE
  MaxEvents = 5
SYMMETRY ClientSymmetry
INVARIANTS
  ClientsServed
PROPERTIES
  KeepsLifecycle
  CancelCascades
