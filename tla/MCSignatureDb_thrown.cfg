SPECIFICATION Spec
CONSTANTS
  s = s
  t = t
  u = u
  x = x
  y = y
  Null = Null
  Sources = {s}
  Targets = {t, u}
  Graphs <- LineOnly
  GoalSets <- Everything
  Commands = {x}
  Precious = {}
  Worlds <- NewContentsAndExceptions
  MayFail = FALSE
  MayEditDuringRun = FALSE
  MaxClock = 8
INVARIANTS ExceptionRemembered
