SPECIFICATION Spec
CONSTANTS
  NumContexts = 2
  NumPages = 2
  Pages = {0, 1}
  MailboxPage = 1
  BootContext = 1
  Operations = {"snoop", "switch", "fs", "mmu", "ss", "go", "stop", "reset", "zero", "syscfg", "sc", "page"}
  MaxBurst = 2
  MaxOps = 3
INVARIANTS
  TypeOK
  OneBusMaster
  StateRestored
  HaltedInRead
  MapsAsAsked
PROPERTY ResumesInOwnContext
