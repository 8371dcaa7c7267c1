SPECIFICATION FairRunSpec
CONSTANTS
  Pods = {p1}
  NoPod = NoPod
  Ttl = 1
  MaxGen = 2
  MaxIdx = 1
  IsChild = FALSE
  SessionStop = FALSE
PROPERTIES CancelConverges
CHECK_DEADLOCK FALSE
