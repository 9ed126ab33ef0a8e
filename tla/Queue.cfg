\* Two files, two workers, a crash, a raising fail_batch; reads of the second
\* file may come back empty while it exists.  Workers and restarts are fair.
CONSTANTS
  FileId = {f1, f2}
  Passage = {p}
  Worker = {w1, w2}
  CLAIM_BATCH_SIZE = 2
  MAX_RETRIES = 2
  CanReadEmpty = {f2}
  MaxPassages = 2
  MaxChunkId = 2
  MaxCrashes = 1
  MaxDbFaults = 1
SPECIFICATION FairSpec
INVARIANTS
  ClaimsAreExclusive
  JobsMirrorRows
  NothingIsLost
  RetryBudget
  SequencesAreDense
  CountersAgree
  TerminalMeansSettled
PROPERTIES
  ImplementsLease
  QueueDrains
  LateWorkIsReported
CHECK_DEADLOCK FALSE
