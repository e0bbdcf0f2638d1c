SPECIFICATION Spec
CONSTANTS
  N = 4
  Tasks = {t1}
  NoTask = NoTask
  ByTimestamp = {}
  Unlimited = Unlimited
  JobsOption = Unlimited
  HardwareConcurrency = 0
  KeepGoing = TRUE
  AlwaysBuild = FALSE
  MayThrow = FALSE
INVARIANTS
  KeepGoingCompletes
