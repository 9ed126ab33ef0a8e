\* A batch is split by an empty read and then fails.
CONSTANTS
  FileId = {f1}
  Passage = {p}
  Worker = {w1}
  CLAIM_BATCH_SIZE = 2
  MAX_RETRIES = 3
  CanReadEmpty = {f1}
  MaxPassages = 2
  MaxChunkId = 2
  MaxCrashes = 0
  MaxDbFaults = 0
SPECIFICATION Spec
INVARIANT ProgressIsAFraction
CHECK_DEADLOCK FALSE
