SPECIFICATION Spec
CONSTANTS
  Addrs = {a1, a2, a3}
  MaxDevices = 2
  MaxHandles = 1
  MaxPlugs = 3
  MaxTimeouts = 1
SYMMETRY AddressSymmetry
INVARIANTS
  TypeOK
  SlotsTrackSticks
  CalmDrivesAreSlots
  HandlesAreMounted
  OwnTransfer
PROPERTY HandlesRemain
