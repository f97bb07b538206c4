SPECIFICATION Spec
CONSTANTS
  MAX_PROCS = 1
  MAX_DEVICES = 1
  MAX_HANDLES = 1
  PATH_MAX = 8
  CWD_MAX = 4
  Names = {"A", "BB"}
  NameLength <- MCNameLength
  Mem = 32
  PRIVATE_LIMIT = 16
  CHUNK_SIZE = 1
  DIRENT_SIZE = 4
  MaxSize = 2
  MaxEntries = 2
  MaxOffset = 3
  Inputs <- MCInputs
  Strings <- MCStrings
  Args = {1, 8}
  Buffers <- MCBuffers
  Offsets <- MCOffsets
  FirstDisk <- MCFirstDisk
VIEW View
INVARIANTS
  TypeOK
  NoOrphanHandle
  CwdRoundTrips
PROPERTY KeepsToItsRequest
