CONSTANTS
  Devices = {d1, d2}
  Tools = {t1, t2}
  Menus = {m1}
  None = None
SPECIFICATION FairSpec
CHECK_DEADLOCK FALSE
PROPERTIES
  CapturesEnd
  QueueMovesOn
