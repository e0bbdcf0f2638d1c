SPECIFICATION Spec
CONSTANTS
  template = template
  macros = macros
  script = script
  Makefile = Makefile
  Target = Target
  Sources = {template, macros}
  Made = {script, Makefile, Target}
  Edges <- Graph
  TaskSources <- Graph
  Phony = {}
  Careful = {script}
  Failing = {script, Makefile, Target}
  Throwing = {Makefile, Target}
  Deletable = {script, template}
  MaxClock = 3
  MaxKills = 1
INVARIANTS RulesAreCurrent
PROPERTIES ForcedTargetIsCurrent ForcedRunsBuildAll RunsEnd
CHECK_DEADLOCK FALSE
