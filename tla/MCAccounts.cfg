SPECIFICATION Spec
SYMMETRY Symmetric
CONSTANTS
  u1 = u1  u2 = u2  k1 = k1  k2 = k2  k3 = k3  h1 = h1  h2 = h2
  Users = {u1, u2}
  Tokens = {k1, k2, k3}
  Handlers = {h1, h2}
  Owner = u1
  Life = 1
  LockTime = 2
  MaxFailures = 2
  Ticks = 2
  MaxClock = 3
  MaxRequests = 3
  MaxFaults = 1
INVARIANTS DecidedOnce NoStrays
PROPERTIES RevokedStaysOut LockLasts
CHECK_DEADLOCK FALSE
