\* Two threads, one file, one end of the process, a claim or a load of the model,
\* and a fail_batch, that raise.
CONSTANTS
  FileId = {f1}
  Passage = {p}
  Worker = {w1, w2}
  CLAIM_BATCH_SIZE = 1
  MAX_RETRIES = 1
  CanReadEmpty = {f1}
  MaxPassages = 1
  MaxChunkId = 2
  MaxCrashes = 1
  MaxDbFaults = 1
  MaxThreadFaults = 1
SPECIFICATION FairPool
INVARIANTS
  PoolTypeOK
  OneBatchAfterStop
  LoadedOnce
PROPERTIES
  WorkersGoOn
  ShutdownEnds
  ImplementsQueue
CHECK_DEADLOCK FALSE
