SPECIFICATION Spec
CONSTANTS
  p = p  g = g  e1 = e1  e2 = e2  e3 = e3  r1 = r1  r2 = r2  s1 = s1
  t1 = t1  t2 = t2  a1 = a1  a2 = a2  a3 = a3  a4 = a4
  i1 = i1  i2 = i2  c1 = c1  c2 = c2  c3 = c3
  Conns = {c1, c2, c3}
  Msgs = {p, g}
  Private = {p}
  ToFriend = {p}
  Edits = {e1, e2, e3}
  Recalls = {r1, r2}
  Saves = {s1}
  Toggles = {t1, t2}
  Acks = {a1, a2, a3, a4}
  On <- OnDef
  At <- AtDef
  PoolOf <- PoolDef
  Seat <- SeatDef
  SenderAt <- SeatDef
  MaxRequests = 3
  MaxFaults = 0
INVARIANT EditReaches
CHECK_DEADLOCK FALSE
