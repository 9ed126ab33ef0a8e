\* The sizes of LineBufferSafety; the declared size keeps the default ones.
CONSTANTS
  PASSAGE_TARGET_BYTES = 15
  PASSAGE_MAX_BYTES = 17
  PASSAGE_OVERLAP_BYTES = 3
  INDEX_MEMORY_BUDGET_BYTES = 12
  EMBEDDING_DIM = 3
  PASSAGE_MAX_TARGET_BYTES = 40
  Texts <- FileTexts
  TotalSizes = {48}
  ChunkSizes <- Arrivals
SPECIFICATION Spec
PROPERTIES
  EndsAreDistinct
CHECK_DEADLOCK FALSE
