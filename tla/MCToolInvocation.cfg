SPECIFICATION Spec
CONSTANTS
  Pods = {p1}
  NoPod = NoPod
  Ttl = 1
  MaxGen = 1
  MaxIdx = 1
  IsChild = FALSE
  SessionStop = FALSE
  Invs = {1}
  Calls = {c1, c2}
  NoCall = NoCall
  Answers = {"succeeded"}
  DTtl = 1
  Batch = 1
  Oversized = {}
SYMMETRY CallSymmetry
INVARIANTS LedgerTypeOK AtMostOnceEffect NotDispatchedIsTruthful ReportedIsDurable NoResurrection
PROPERTIES ImplementsContract
CHECK_DEADLOCK FALSE
