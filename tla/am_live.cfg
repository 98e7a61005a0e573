SPECIFICATION FairSpec
CONSTANTS
  u1 = u1
  u2 = u2
  p1 = p1
  Uuids = {u1}
  Paths = {p1}
  NoPath = NoPath
  BaseOf <- Plain
  MaxRequests = 3
  MaxAssets = 1
  MaxDepth = 1
  Ops <- EveryOp
INVARIANTS NoLostCallback CalledOnce QueuedWorkHasWorker NoThreadLeft
PROPERTIES EveryCallbackFires ShutdownReturns
