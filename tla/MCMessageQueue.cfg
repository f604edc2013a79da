SPECIFICATION FairSpec
CONSTANTS
  m1 = m1
  m2 = m2
  m3 = m3
  Msgs <- MCMsgs
  Flushers = {"timer", "recall"}
  Timer = "timer"
  ReadMax = 2
  OpenAfter = 2
  CloseAfter = 2
  MaxFaults = 2
CHECK_DEADLOCK FALSE
INVARIANTS LossNeedsOverlap
PROPERTIES Drained
