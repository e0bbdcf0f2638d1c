SPECIFICATION Spec
CONSTANTS
  N = 4
  Tasks = {t1, t2}
  NoTask = NoTask
  ByTimestamp = {t2}
  Unlimited = Unlimited
  JobsOption = 2
  HardwareConcurrency = 0
  KeepGoing = FALSE
  AlwaysBuild = FALSE
  MayThrow = TRUE
INVARIANTS
  SlotLimit
  DependenciesFirst
  BuiltIsRecorded
  InterruptedNotBuilt
  ReturnIsComplete
  JobServerOutlivesJobs
PROPERTIES
  OutcomeIsFinal
