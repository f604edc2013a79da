SPECIFICATION FairSpec
CONSTANTS
  f1 = f1  f2 = f2  f3 = f3  i1 = i1  i2 = i2
  Sessions = {s1, s2}
  Devices = {d1, d2}
  Insts = {i1, i2}
  Ears = {f1, f2, f3}
  EarAt <- MCEarAt
  None = None
  Ttl = 3
  MaxMissed = 2
  MaxFaults = 2
CHECK_DEADLOCK FALSE
INVARIANTS ListedIsLive OpenIsListed FriendsKnow
PROPERTIES StaleKeyExpires
