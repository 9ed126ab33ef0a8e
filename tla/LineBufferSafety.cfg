\* Sizes are scaled to 1/40 of the defaults, the budget to four vectors of
\* twelve bytes: declared sizes up to 48 keep the default, 52 needs larger
\* passages and 130 the largest.
CONSTANTS
  PASSAGE_TARGET_BYTES = 15
  PASSAGE_MAX_BYTES = 17
  PASSAGE_OVERLAP_BYTES = 3
  INDEX_MEMORY_BUDGET_BYTES = 12
  EMBEDDING_DIM = 3
  PASSAGE_MAX_TARGET_BYTES = 40
  Texts <- FileTexts
  TotalSizes = {48, 52, 130}
  ChunkSizes <- Arrivals
SPECIFICATION Spec
INVARIANTS
  PassagesTile
  NothingGrowsLong
  IndexIsTenThirdsAtMost
PROPERTIES
  CharactersStayWhole
  OnlyTheFlushRepeats
  ImplementsStream
CHECK_DEADLOCK FALSE
