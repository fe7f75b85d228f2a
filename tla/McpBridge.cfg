CONSTANTS
  Pipes = {p1, p2, p3}
  Foreign = {p3}
  None = None
SPECIFICATION Spec
INVARIANTS
  CallsRunOnceWhereSelected
  SessionsAreReal
PROPERTIES
  AutoConnectsUnlessChosen
