SPECIFICATION FairSpec
CONSTANTS
  m1 = m1
  m2 = m2
  m3 = m3
  p1 = p1
  alice = alice
  bob = bob
  conv = conv
  Msgs = {m1, m2}
  Procs = {p1}
  SenderOf <- MCSenderOf
  ConvOf <- MCConvOf
  BatchSize = 2
  QueueMax = 1
  MaxFaults = 1
  MaxStops = 0
CHECK_DEADLOCK FALSE
PROPERTY EventuallyRelayed
