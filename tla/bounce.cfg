CONSTANTS
  RingSize = 1
  Mps = 1
  DeadStreak = 1
  ProbeLimit = 1
  Faults = {"unplug"}
  MaxWrite = 1
  MaxBytes = 1
  MaxAttempts = 2
  Wrap = 4
  OtherDevices = FALSE
  NoAutoMode = FALSE
  SlowPoll = FALSE
SPECIFICATION DispSpec
INVARIANT AttachedHasStream
