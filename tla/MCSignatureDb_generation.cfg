SPECIFICATION Spec
CONSTANTS
  s = s
  t = t
  u = u
  x = x
  y = y
  Null = Null
  Sources = {s}
  Targets = {t, u}
  Graphs <- SharedOnly
  GoalSets <- Partial
  Commands = {x}
  Precious = {}
  Worlds <- NewContents
  MayFail = FALSE
  MayEditDuringRun = FALSE
  MaxClock = 8
INVARIANTS Fresh
