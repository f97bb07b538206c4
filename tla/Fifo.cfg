SPECIFICATION Spec
CONSTANTS
  Data = {a, b}
  SIZE = 4
INVARIANTS
  NoSlotRace
PROPERTY ImplementsQueue
