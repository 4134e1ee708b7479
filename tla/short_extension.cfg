SPECIFICATION GrowingSpec
CONSTANTS
  INITIAL_CHUNK_SIZE = 11
  EXTENSION_SIZE = 1
  MAX_HEAP = 30
  SMALL_BIN_SEARCH_MAX = 0
  LARGE_BIN_SEARCH_MAX = 16
  LARGE_LOG = 2
  HUGE_LOG = 3
  Sizes = {20, 33}
INVARIANT CutsLeaveAChunk
