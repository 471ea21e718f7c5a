SPECIFICATION Spec
CONSTANTS
  Slots = 4
  SlotSize = 2
  MaxWrite = 5
INVARIANTS
  TypeOK
  SlotsAccounted
  StreamInOrder
  BuffersHeld
  ControlFreedElse
  AttachedHasDevice
PROPERTY
  FlushDelivers
