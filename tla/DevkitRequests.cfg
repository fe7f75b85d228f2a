CONSTANTS
  Devices = {d1, d2}
  Requests = {r1, r2}
  Live = {r2}
  None = None
SPECIFICATION FairSpec
CHECK_DEADLOCK FALSE
INVARIANTS
  AnswersAreTruthful
PROPERTIES
  CallsReturn
