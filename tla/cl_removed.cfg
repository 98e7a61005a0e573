SPECIFICATION Spec
CONSTANTS
  Nodes = {root, leaf}
  Root = root
  Nothing = nothing
  Comps = {c1, c2}
  Wants <- WantsBoth
  MayDo <- RemovesInUpdate
  MayUndo = FALSE
  MaxCalls = 1
  MaxDepth = 6
INVARIANTS PassEntryAlive
