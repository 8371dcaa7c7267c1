CONSTANTS
    LeaseDuration = 9
    RenewalInterval = 2
    MaxAttemptWait = 6
    MaxSlack = 1
    MaxAttempts = 2
SPECIFICATION LiveSpec
INVARIANTS LeaseTypeOK AuthorityIsExclusive BudgetSuffices RetiredIsEnded
PROPERTIES LoserIsFenced
CHECK_DEADLOCK FALSE
