SPECIFICATION DriverSpec
CONSTANTS
  INITIAL_CHUNK_SIZE = 11
  EXTENSION_SIZE = 5
  MAX_HEAP = 32
  SMALL_BIN_SEARCH_MAX = 0
  LARGE_BIN_SEARCH_MAX = 16
  LARGE_LOG = 2
  HUGE_LOG = 4
  Sizes = {20, 33, 64, 100}
INVARIANTS
  NoAdjacentFree
  FreedHeapIsOneChunk
  MyCheckerPasses
PROPERTY EvaluationsIndependent
