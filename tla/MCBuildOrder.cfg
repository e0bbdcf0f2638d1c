SPECIFICATION FairSpec
CONSTANTS
  M = 4
  Goal = 1
  MaxEdges = 4
  MaxIncludes = 2
  EdgeSets <- FewEdges
  IncludeSets <- FewIncludes
INVARIANTS
  OrderIsRight
  ThrownForCycles
  IncludesAreDependencies
PROPERTIES
  Terminates
