CONSTANTS
  RingSize = 1
  Mps = 1
  DeadStreak = 1
  ProbeLimit = 1
  Faults = {"unplug", "late", "reenum", "diag"}
  MaxWrite = 1
  MaxBytes = 0
  MaxAttempts = 1
  Wrap = 2
  OtherDevices = TRUE
  NoAutoMode = FALSE
  SlowPoll = FALSE
SPECIFICATION LiveSpec
PROPERTIES
  ComesUp
  ControlReturns
INVARIANT DrawsOnSetDisplay
