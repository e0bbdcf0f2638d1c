SPECIFICATION Spec
CONSTANTS
  s = s
  t = t
  u = u
  x = x
  y = y
  Null = Null
  Sources = {s}
  Targets = {t, u}
  Graphs <- ChainOrShared
  GoalSets <- Partial
  Commands = {x}
  Precious = {}
  Worlds <- FileEdits
  MayFail = TRUE
  MayEditDuringRun = FALSE
  MaxClock = 6
INVARIANTS FailureRemembered NoDanglingDependency OneGenerationPerDependency
