CONSTANTS
  p1 = p1
  p2 = p2
  r1 = r1
  r2 = r2
  Pods = {p1, p2}
  FirstPod = p1
  Requests = {r1, r2}
  Batches <- MCBatches
  None = None
  MaxGen = 1
  MaxIntents = 1
SPECIFICATION Spec
INVARIANTS ApprovalIsCurrent AcceptedAnswerStands WaitIsAnswerable
CHECK_DEADLOCK FALSE
