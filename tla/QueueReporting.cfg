\* The last passage is indexed while the upload is still finalizing.
CONSTANTS
  FileId = {f1}
  Passage = {p}
  Worker = {w1}
  CLAIM_BATCH_SIZE = 2
  MAX_RETRIES = 2
  CanReadEmpty = {}
  MaxPassages = 2
  MaxChunkId = 2
  MaxCrashes = 0
  MaxDbFaults = 0
SPECIFICATION FairSpec
PROPERTY EveryUploadIsReported
CHECK_DEADLOCK FALSE
