SPECIFICATION FairRunSpec
CONSTANTS
  Pods = {p1}
  NoPod = NoPod
  Ttl = 1
  MaxGen = 2
  MaxIdx = 2
  IsChild = TRUE
  SessionStop = TRUE
INVARIANTS RunTypeOK NoGuidanceLost
PROPERTIES TerminalIsFinal CancellationWins DispositionIsFinal OrphanIsRecovered CancelOfBlockingRunConverges
CHECK_DEADLOCK FALSE
