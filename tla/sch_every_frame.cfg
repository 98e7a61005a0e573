SPECIFICATION Spec
CONSTANTS
  Targets = {a, b}
  Keys = {k1, k2}
  Ids = {t1, t2, t3}
  Nothing = nothing
  Plans <- TwoPlans
  MaxStep = 2
  MaxCalls = 2
SYMMETRY Addresses
INVARIANT CalledEveryFrame
