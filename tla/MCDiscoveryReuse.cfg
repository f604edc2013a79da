SPECIFICATION Spec
CONSTANTS
  p1 = p1
  p2 = p2
  idA = idA
  idB = idB
  addrA = addrA
  addrB = addrB
  Procs = {p1, p2}
  Ids = {idA, idB}
  Addrs = {addrA, addrB}
  Names <- MCNames
  None = None
  Ttl = 2
  Period = 1
  MaxFaults = 0
CHECK_DEADLOCK FALSE
INVARIANTS EndpointHasClient
