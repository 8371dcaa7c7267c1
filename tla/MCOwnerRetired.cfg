CONSTANTS
    LeaseDuration = 9
    RenewalInterval = 2
    MaxAttemptWait = 6
    MaxSlack = 1
    MaxAttempts = 2
SPECIFICATION Spec
INVARIANTS RetirementFreesRun
CHECK_DEADLOCK FALSE
