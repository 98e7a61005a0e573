SPECIFICATION Spec
CONSTANTS
  l1 = l1
  l2 = l2
  l3 = l3
  Listeners = {l1, l2, l3}
  MaxDepth = 2
  MayDestroyPending = FALSE
SYMMETRY AnyListener
INVARIANTS RingsWhole NothingPending CallsEachOnce
