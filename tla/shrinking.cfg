SPECIFICATION Spec
CONSTANTS
  INITIAL_CHUNK_SIZE = 11
  EXTENSION_SIZE = 4
  MAX_HEAP = 30
  SMALL_BIN_SEARCH_MAX = 0
  LARGE_BIN_SEARCH_MAX = 16
  LARGE_LOG = 2
  HUGE_LOG = 3
  Sizes = {20, 64}
INVARIANT NoAdjacentFree
