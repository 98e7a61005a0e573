SPECIFICATION Spec
CONSTANTS
  u1 = u1
  u2 = u2
  p1 = p1
  Uuids = {u1, u2}
  Paths = {p1}
  NoPath = NoPath
  BaseOf <- SubAsset
  MaxRequests = 3
  MaxAssets = 2
  MaxDepth = 1
  Ops <- NoOps
INVARIANTS InFlightDeduplicated OneInstance
