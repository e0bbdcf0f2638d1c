SPECIFICATION FairSpec
CONSTANTS
  o = o
  p = p
  inc = inc
  lib = lib
  src = src
  a = a
  b = b
  h = h
  q = q
  g = g
  None = None
  Objects = {o, p}
  Source <- SourceOf
  Path <- PathOf
  Files <- AllFiles
  Generated <- MadeFiles
  Contents <- ContentsOf
  Extra <- Nothing
  MayCrash = TRUE
  MaxClock = 5
INVARIANTS TypeOK ReadsAreDependencies StoredListsAreRight CachedSearchIsCurrent
PROPERTIES WalkEnds
