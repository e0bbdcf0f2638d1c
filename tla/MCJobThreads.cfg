SPECIFICATION FairSpec
CONSTANTS
  c = c
  p = p
  Main = main
  Nobody = nobody
  Commands = {c}
  PythonJobs = {p}
  Capacity = 2
  MaxOutput = 3
  Lingering = {}
  MayFail = TRUE
  KeepGoing = TRUE
INVARIANTS TypeOK EndOfFileIsReal OutputIsComplete PythonRunsAlone
PROPERTIES BuildReturns
CHECK_DEADLOCK FALSE
