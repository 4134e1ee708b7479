SPECIFICATION Spec
CONSTANTS
  INITIAL_CHUNK_SIZE = 11
  EXTENSION_SIZE = 4
  MAX_HEAP = 32
  SMALL_BIN_SEARCH_MAX = 3
  LARGE_BIN_SEARCH_MAX = 2
  LARGE_LOG = 3
  HUGE_LOG = 4
  Sizes = {20, 40, 64, 100, 128}
INVARIANTS
  TypeOK
  HeapTiled
  TagsSound
  ChunksAccountedFor
  BlocksBelongToClient
  LastWordIsClients
  CutsLeaveAChunk
PROPERTY ImplementsRangeList
