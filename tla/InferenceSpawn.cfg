\* A late exit of a process that was given up, while its successor starts.
SPECIFICATION InferenceSpec
CONSTANTS
  Calls = {c1, c2, c3}
  Procs = {p1, p2, p3}
  NoProc = NoProc
  MaxRestarts = 3
SYMMETRY CallSymmetry
INVARIANTS
  OneStarting
