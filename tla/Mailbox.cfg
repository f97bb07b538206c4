SPECIFICATION Spec
CONSTANTS
  Chunk = 3
  QCap = 2
  PollMax = 1
  Lengths = {0, 1, 2, 4}
  Zeros = {{}, {1}, {2, 3}}
  MaxTyped = 3
  MaxResets = 1
INVARIANTS
  TypeOK
  ExactlyOnce
  WriteComplete
  InputConserved
PROPERTY ImplementsProtocol
