SPECIFICATION Spec
CONSTANTS
  f1 = f1  f2 = f2  f3 = f3  i1 = i1  i2 = i2
  Sessions = {s1, s2}
  Devices = {d1, d2}
  Insts = {i1}
  Ears = {f1, f2}
  EarAt <- MCEarAt
  None = None
  Ttl = 3
  MaxMissed = 2
  MaxFaults = 0
CHECK_DEADLOCK FALSE
INVARIANTS EveryEarHears
