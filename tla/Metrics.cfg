SPECIFICATION FairSpec
CHECK_DEADLOCK FALSE
CONSTANTS
  c1 = c1
  c2 = c2
  d1 = d1
  None = None
  Containers = {c1, d1}
  Debug = {d1}
  Value <- OwnValues
  MaxFaults = 2
INVARIANTS TypeOK ReportingRegistered NothingLeftBehind
PROPERTIES AlwaysAnswered
