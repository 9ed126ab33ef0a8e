\* One thread is idle and ends while the other has a batch.
CONSTANTS
  FileId = {f1}
  Passage = {p}
  Worker = {w1, w2}
  CLAIM_BATCH_SIZE = 1
  MAX_RETRIES = 2
  CanReadEmpty = {}
  MaxPassages = 1
  MaxChunkId = 1
  MaxCrashes = 1
  MaxDbFaults = 0
  MaxThreadFaults = 0
SPECIFICATION PoolSpec
INVARIANT StopWaitsForBatches
CHECK_DEADLOCK FALSE
