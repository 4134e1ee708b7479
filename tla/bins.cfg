SPECIFICATION Spec
CONSTANTS
  Chunk = {1, 2, 3, 4, 5, 6}
  LARGE_LOG = 7
  HUGE_LOG = 8
  Sizings <- MCSizings
INVARIANTS
  ListsCircular
  TreesValid
  SearchesFind
PROPERTY ImplementsBinSets
