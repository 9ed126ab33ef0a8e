\* Two clients, one slot, two requests on their way, two faults; one stray
\* byte in two makes a sample binary.
CONSTANTS
  k1 = k1
  k2 = k2
  Client = {k1, k2}
  Request = {r1, r2}
  Nobody = Nobody
  Contents <- Files
  SAMPLE_BYTES = 2
  OneIn = 2
  MAX_CONCURRENT_UPLOADS = 1
  MAX_CHUNK_BYTES = 3
  MAX_FILE_BYTES = 3
  MaxFaults = 2
SPECIFICATION FairSpec
INVARIANTS
  SlotsAreAccounted
  StoredIsAPrefix
  ResumesWithinStored
  NoBinaryIsStored
  TextIsRefusedOnlyIfCut
PROPERTIES
  EndedStaysEnded
  UploadsEnd
CHECK_DEADLOCK FALSE
