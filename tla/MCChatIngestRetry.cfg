SPECIFICATION IngestSpec
CONSTANTS
  a1 = a1
  a2 = a2
  b1 = b1
  c1 = c1
  w1 = w1
  w2 = w2
  Lane2 = "group"
  Msgs <- MCMsgs
  KeyOf <- MCKeyOf
  LaneOf <- MCLaneOf
  WorkerOf <- MCWorkerOf
  Workers = {w1, w2}
  Files = {}
  Groups = {}
  Blocked = {}
  DedupMax = 3
  TasksMax = 1
  MaxRestarts = 0
  Flushers = {"timer"}
  Timer = "timer"
  ReadMax = 2
  OpenAfter = 1
  CloseAfter = 1
  MaxFaults = 0
CHECK_DEADLOCK FALSE
INVARIANTS DuplicateWasProcessed
