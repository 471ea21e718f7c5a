CONSTANTS
  RingSize = 2
  Mps = 2
  DeadStreak = 2
  ProbeLimit = 1
  Faults = {"unplug", "loss", "nak", "stall", "late", "reenum", "diag"}
  MaxWrite = 2
  MaxBytes = 3
  MaxAttempts = 2
  Wrap = 4
  OtherDevices = TRUE
  NoAutoMode = TRUE
  SlowPoll = TRUE
SPECIFICATION DispSpec
INVARIANTS
  TypeOK
  RingIntact
  PacketIntact
  StreamExact
  NoOldBytes
  DrawsOnSetDisplay
PROPERTIES
  MailboxHeld
  FlushDelivers
  QueueSpec
