SPECIFICATION FairSpec
CONSTANTS
  Pods = {p1}
  NoPod = NoPod
  Ttl = 1
  MaxGen = 1
  MaxIdx = 2
  IsChild = FALSE
  SessionStop = FALSE
  Invs = {1}
  Calls = {c1}
  NoCall = NoCall
  Answers = {"succeeded"}
  DTtl = 1
  Batch = 1
  Oversized = {{1}}
PROPERTIES LedgerComesToRest NoDispatchOverGuidance
CHECK_DEADLOCK FALSE
