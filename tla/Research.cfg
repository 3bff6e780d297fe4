SPECIFICATION Spec
CONSTANTS
  d1 = d1
  ml = ml
  raw = raw
  e1 = e1
  e2 = e2
  q1 = q1
  q2 = q2
  r1 = r1
  r2 = r2
  DatasetIds = {d1}
  Dirs = {ml, raw}
  Extents = {e1, e2}
  Downloads = {q1, q2}
  Deletes = {r1, r2}
  NoRow = NoRow
  MaxFetches = 3
  Trainings = {t1}
  ModelSymbols = {s1}
  NoModel = NoModel
  MaxModels = 2
  MongoIds = {m1}
  MemoryIds = {u1}
  Unused = Unused
  Gone = Gone
  Attachments = {a1, a2}
  MaxResults = 2
  Calls = {c1, c2}
  Procs = {p1, p2}
  NoProc = NoProc
  MaxRestarts = 1
INVARIANTS
  TypeOK
  FilesBehindRows
  ModelTellsItsData
  LabHonest
  InferenceHonest
PROPERTIES
  TrainingsEnd
  CallsSettle
