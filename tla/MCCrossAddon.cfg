CONSTANTS
  m1 = m1
  m2 = m2
  m3 = m3
  draw = draw
  present = present
  NoModule = NoModule
  Module <- MCModule
  Event <- MCEvent
  Callback <- MCCallback
  EventOf <- MCEventOf
SPECIFICATION Spec
SYMMETRY Symmetry
INVARIANTS
  DetachedLeavesNothing
  DeliveredExactlyOnce
PROPERTIES
  NoDeliveryGap
