SPECIFICATION Spec
CONSTANTS
  c1 = c1
  c2 = c2
  c3 = c3
  c4 = c4
  c5 = c5
  main = main
  b1 = b1
  b2 = b2
  b3 = b3
  Main = main
  CmdBuffs <- Two
  Chunks = {c1, c2, c3, c4, c5}
  PoolCapacity = 1
  JobThreads = 2
  Multithreaded = FALSE
  MaxQueued = 1
SYMMETRY AnyChunk
INVARIANTS CursorOwned DataOwned
