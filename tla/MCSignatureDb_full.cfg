SPECIFICATION Spec
CONSTANTS
  s = s
  t = t
  u = u
  x = x
  y = y
  Null = Null
  Sources = {s}
  Targets = {t, u}
  Graphs <- ChainOrShared
  GoalSets <- Everything
  Commands = {x, y}
  Precious = {}
  Worlds <- AnyEditOrKills
  MayFail = FALSE
  MayEditDuringRun = FALSE
  MaxClock = 7
INVARIANTS TypeOK Fresh
PROPERTIES NothingToDoTwice
