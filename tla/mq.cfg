SPECIFICATION FairSpec
CONSTANTS
  c1 = c1
  c2 = c2
  c3 = c3
  c4 = c4
  Chunks = {c1,c2,c3}
  ChunkSlots = 3
  PoolCapacity = 1
  CountModulus = 9
  Bodies = {"b1"}
  MaxOutstanding = 2
  MaxStash = 0
  Ops <- OpNames
INVARIANTS CountsAgree NoLostWakeup MessagesIntact DataIntact DrainedWhenImmediate
PROPERTIES ImplementsStream WaitReturns
