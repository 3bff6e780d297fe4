\* One live order under two overlapping reconciliations.
SPECIFICATION Spec
CONSTANTS
  o1 = o1
  o2 = o2
  c1 = c1
  c2 = c2
  NoParent = NoParent
  OrderIds = {o1}
  ClientIds = {c1, c2}
  Families <- NoFamily
  Modes = {"live"}
  Quantities <- Signed
  Amounts <- Amounted
  NaN = NaN
  Runs = {r1, r2}
  ReuseOrderIds = TRUE
  MaxEvents = 3
INVARIANTS
  TypeOK
  OrdersTold
PROPERTIES
  TerminalLeftOnlyByReconcile
  RunsEnd
