CONSTANTS
  Writers = {w1, w2}
  SeqSize = 3
  Step = 6
  RandChunk = 8
  Draw = 3
  PaddingMax = 2
  Overhead = 16
  Bodies = {1, 9}
  Nothing = Nothing
SPECIFICATION ObfsSpec
CHECK_DEADLOCK FALSE
INVARIANTS
  NonceOnce
  PaddingIsItsOwn
  UnwrapsToItself
