SPECIFICATION PipeSpec
CONSTANTS
  m1 = m1  m2 = m2  i1 = i1  i2 = i2
  Private = {m1}
  Group = {m2}
  Instances = {i1, i2}
  Here = i1
  BatchMax = 2
  MaxFailures = 1
INVARIANT ShownOnce
CHECK_DEADLOCK FALSE
