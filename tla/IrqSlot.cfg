SPECIFICATION Spec
CONSTANTS
  Commands = {"irq", "monitor", "timer", "boot", "stop", "go", "reset"}
  Careless = TRUE
  MaxCommands = 4
  MaxBreaks = 2
INVARIANTS
  SlotNeverLeaks
