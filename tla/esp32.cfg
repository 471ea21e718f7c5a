CONSTANTS
  d1 = d1
  d2 = d2
  Devices = {d1, d2}
  NoDevice = NoDevice
  Slots = 2
SPECIFICATION Spec
CONSTRAINT Explored
INVARIANTS TypeOK SlotsBalanced AttachedHasDevice
PROPERTIES CtrlOwnAnswer Recovers Found
