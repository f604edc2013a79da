SPECIFICATION FairSpec
CONSTANTS
  Sagas = {s1}
  Procs = {p1, p2}
  MaxFaults = 3
  MaxCrashes = 2
CHECK_DEADLOCK FALSE
INVARIANTS AllOrNothing
PROPERTIES Settles
