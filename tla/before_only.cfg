SPECIFICATION GrowingSpec
CONSTANTS
  INITIAL_CHUNK_SIZE = 11
  EXTENSION_SIZE = 4
  MAX_HEAP = 36
  SMALL_BIN_SEARCH_MAX = 0
  LARGE_BIN_SEARCH_MAX = 16
  LARGE_LOG = 2
  HUGE_LOG = 4
  Sizes = {20, 33, 100}
INVARIANT BeforeOnlyBelowUsed
