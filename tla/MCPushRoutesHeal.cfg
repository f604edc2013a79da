SPECIFICATION Spec
CONSTANTS
  g1 = g1  g2 = g2  u1 = u1  s1 = s1  s2 = s2  s3 = s3
  Gateways = {g1}
  Users = {u1}
  Sessions = {s1}
  GatewayOf <- MCGatewayOf
  UidOf <- MCUidOf
  Msgs = {}
  Target <- MCTarget
  None = None
  Slots = {1, 2}
  MaxFaults = 1
PROPERTY ReachableAgain
CHECK_DEADLOCK FALSE
