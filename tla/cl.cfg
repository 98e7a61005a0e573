SPECIFICATION FairSpec
CONSTANTS
  Nodes = {root, leaf}
  Root = root
  Nothing = nothing
  Comps = {c1, c2}
  Wants <- WantsBoth
  MayDo <- MayDoInOrder
  MayUndo = FALSE
  MaxCalls = 2
  MaxDepth = 6
INVARIANTS FlagsAgree SchedulerAgrees NothingDangling
PROPERTIES KeepsContract StartedOrDisabled
