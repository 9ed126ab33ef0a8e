\* One file, orderly clients, two concurrent requests, a crash.
CONSTANTS
  FileId = {f1}
  Passage <- ByteRanges
  Worker = {w1, w2}
  Request = {r1, r2}
  CLAIM_BATCH_SIZE = 2
  MAX_RETRIES = 2
  MAX_FILE_BYTES = 2
  MAX_CHUNK_BYTES = 2
  Orderly = TRUE
  CanReadEmpty = {f1}
  MaxPassages = 2
  MaxChunkId = 2
  MaxCrashes = 1
  MaxDbFaults = 1
SPECIFICATION UploadSpec
SYMMETRY Interchangeable
INVARIANTS
  CommittedBytesAreOnDisk
  CompletedFileIsWhole
  VectorsMatchPassages
  IndexedIsSearchable
  DeletedBytesAreGone
CHECK_DEADLOCK FALSE
