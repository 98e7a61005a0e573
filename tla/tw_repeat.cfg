SPECIFICATION TweenSpec
CONSTANTS
  t1 = t1
  t2 = t2
  t3 = t3
  Tweens = {t1, t2, t3}
  None = None
  Steps <- MCSteps
  Repeat <- ThreeOfNoTime
  MaxStep = 3
  MaxFrames = 2
  MaxCalls = 2
  RestartsItself = FALSE
INVARIANTS CalledAsOften
CHECK_DEADLOCK FALSE
