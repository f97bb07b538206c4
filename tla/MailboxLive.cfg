SPECIFICATION FairSpec
CONSTANTS
  Chunk = 3
  QCap = 2
  PollMax = 1
  Lengths = {0, 2}
  Zeros = {{}}
  MaxTyped = 2
  MaxResets = 0
PROPERTIES
  RequestServed
  ReadServed
  ReadyShown
