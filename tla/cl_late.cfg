SPECIFICATION Spec
CONSTANTS
  Nodes = {root, leaf}
  Root = root
  Nothing = nothing
  Comps = {c1, c2}
  Wants <- WantsBoth
  MayDo <- EnablesInUpdate
  MayUndo = FALSE
  MaxCalls = 1
  MaxDepth = 6
PROPERTIES KeepsContract
