SPECIFICATION FairSpec
CONSTANTS
  N = 3
  Tasks = {t1, t2}
  NoTask = NoTask
  ByTimestamp = {t2}
  Unlimited = Unlimited
  JobsOption = 0
  HardwareConcurrency = 2
  KeepGoing = TRUE
  AlwaysBuild = FALSE
  MayThrow = TRUE
INVARIANTS
  IInv
  FailureHasCause
PROPERTIES
  Terminates
  ImplementsAbstractBuild
