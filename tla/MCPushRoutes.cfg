SPECIFICATION Spec
CONSTANTS
  g1 = g1  g2 = g2  u1 = u1  s1 = s1  s2 = s2  s3 = s3 
  Gateways = {g1, g2}
  Users = {u1}
  Sessions = {s1, s2, s3}
  GatewayOf <- MCGatewayOf
  UidOf <- MCUidOf
  Msgs = {1}
  Target <- MCTarget
  None = None
  Slots = {1, 2}
  MaxFaults = 1
INVARIANTS PushLands StaleRouteExcused LastGatewayWins
PROPERTY StaleRouteGoes
CHECK_DEADLOCK FALSE
