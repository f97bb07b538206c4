SPECIFICATION FairSpec
CONSTANTS
  Interfaces = {i1, i2}
  MAX_RECORDS = 2
  Reports <- MCReports
  NoInterface = none
INVARIANTS
  RepeatIsHeld
  RouteIsOwn
PROPERTY RepeatStops
