SPECIFICATION FairStreamSpec
CONSTANTS
  BufferLimit = 1
  Longest = 12
INVARIANTS EveryChunkOnce SlotKeptForReader EndsAfterLast
PROPERTY StreamEnds
CHECK_DEADLOCK FALSE
