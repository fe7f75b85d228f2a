CONSTANTS
  Lists = {c1, c2}
  Shaders = {s1, s2}
  MaxDraws = 2
  MaxSubmits = 2
  MaxCounter = 2
SPECIFICATION CaptureSpec
CHECK_DEADLOCK FALSE
INVARIANTS
  BatchesNameTheirDraws
  UsageFitsTheDraws
