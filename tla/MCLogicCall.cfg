SPECIFICATION CallSpec
CONSTANTS
  l1 = l1  l2 = l2  l3 = l3
  Logics = {l1, l2, l3}
  Near = {l1, l2}
  Msgs = {1, 2}
  Home <- MCHome
  OpenAfter = 1
  CloseAfter = 2
  MaxCrashes = 1
INVARIANTS AnswerExplained
PROPERTY CallEnds
CHECK_DEADLOCK FALSE
