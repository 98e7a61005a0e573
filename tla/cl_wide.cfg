SPECIFICATION FairSpec
CONSTANTS
  Nodes = {root, leaf}
  Root = root
  Nothing = nothing
  Comps = {c1, c2}
  Wants <- WantsBoth
  MayDo <- MayDoSafely
  MayUndo = FALSE
  MaxCalls = 1
  MaxDepth = 6
INVARIANTS FlagsAgree SchedulerAgrees NothingDangling
PROPERTIES StartedOrDisabled
