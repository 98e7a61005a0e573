SPECIFICATION Spec
CONSTANTS
  u1 = u1
  u2 = u2
  p1 = p1
  Uuids = {u1}
  Paths = {p1}
  NoPath = NoPath
  BaseOf <- Plain
  MaxRequests = 2
  MaxAssets = 1
  MaxDepth = 0
  Ops <- StopOps
INVARIANTS RestartServesRequests
