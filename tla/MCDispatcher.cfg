CONSTANTS
  Slots = {s1, s2, s3}
  SendCap = 1
  PrioCap = 1
  Chunk <- MCChunk
  Small <- MCSmall
  PauseTicks = 1
  DwellTicks = 2
  NumWorkers = 3
  MaxReconnects = 2
SPECIFICATION Spec
SYMMETRY SlotSymmetry
INVARIANTS
  ChunkHasOneSlot
  RateFollowsSessions
  StatusIsTrue
PROPERTIES
  DropOnlyWhenAllFull
