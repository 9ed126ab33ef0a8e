\* A worker reads a passage while /complete renames the file.
CONSTANTS
  FileId = {f1}
  Passage <- ByteRanges
  Worker = {w1}
  Request = {r1}
  CLAIM_BATCH_SIZE = 1
  MAX_RETRIES = 2
  MAX_FILE_BYTES = 1
  MAX_CHUNK_BYTES = 2
  Orderly = TRUE
  CanReadEmpty = {f1}
  MaxPassages = 1
  MaxChunkId = 1
  MaxCrashes = 0
  MaxDbFaults = 0
SPECIFICATION UploadSpec
INVARIANT EmptyReadMeansDeleted
CHECK_DEADLOCK FALSE
