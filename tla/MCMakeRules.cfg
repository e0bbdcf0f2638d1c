SPECIFICATION Spec
CONSTANTS
  M = 5
  Goal = 1
  MaxPatterns = 2
  MaxMade = 2
  MaxRules = 2
  CommandsOrNot = {TRUE}
  Makefiles <- SmallMakefiles
  Disks <- SomeDisks
  Requests <- FewRequests
INVARIANTS
  TypeOK
  OrderIsRight
  PatternsAreApplied
  NothingMissing
PROPERTIES
  FinishedIsFinal
