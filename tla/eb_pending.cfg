SPECIFICATION Spec
CONSTANTS
  l1 = l1
  l2 = l2
  l3 = l3
  Listeners = {l1, l2, l3}
  MaxDepth = 2
  MayDestroyPending = TRUE
SYMMETRY AnyListener
INVARIANTS DetachesItsOwn
