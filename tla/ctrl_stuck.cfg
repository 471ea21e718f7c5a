SPECIFICATION Spec
CONSTANTS
  Slots = 3
  SlotSize = 2
  MaxWrite = 5
INVARIANT
  ControlFreed
