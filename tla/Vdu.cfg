SPECIFICATION VduSpec
CONSTANTS
  ROWS = 2
  COLS = 2
  H = 2
  Modes = {5, 6}
  Output = {"a"}
  QueueSize = 1
  MaxEvents = 4
INVARIANTS
  CursorInBuffer
  DisplayShowsBuffer
PROPERTY ScrollEnds
CHECK_DEADLOCK FALSE
