\* Clients that do anything, one worker, two requests and a search, no crash.
CONSTANTS
  FileId = {f1}
  Passage <- ByteRanges
  Worker = {w1}
  Request = {r1, r2}
  Searcher = {s1}
  TopK = {1, 2}
  CLAIM_BATCH_SIZE = 2
  MAX_RETRIES = 2
  MAX_FILE_BYTES = 2
  MAX_CHUNK_BYTES = 2
  Orderly = FALSE
  CanReadEmpty = {f1}
  MaxPassages = 2
  MaxChunkId = 2
  MaxCrashes = 0
  MaxDbFaults = 0
SPECIFICATION SearchSpec
SYMMETRY Interchangeable
INVARIANTS
  SearchTypeOK
  HitsShowTheirText
  HitsLeftOutAreGone
  OneRetryIsEnough
  IndexedIsFound
  FinalizingHolds
CHECK_DEADLOCK FALSE
