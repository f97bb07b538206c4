SPECIFICATION FairSpec
CONSTANTS
  Commands = {"irq", "monitor", "timer", "boot", "stop", "go"}
  Careless = FALSE
  MaxCommands = 3
  MaxBreaks = 2
INVARIANT NotificationHeld
PROPERTIES
  OnlyAcknowledged
  FsDelivered
  BreakDelivered
