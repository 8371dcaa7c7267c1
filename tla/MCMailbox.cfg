CONSTANTS
    d1 = d1
    b1 = b1
    Direct = {d1}
    Broadcast = {b1}
    Kinds <- MCKinds
    MaxSubs = 2
    MaxAttempts = 2
    MaxClaims = 1
    BufferCap = 2
    DrainCap = 2
    ContextCap = 1
SPECIFICATION LiveSpec
INVARIANTS MailboxTypeOK AcknowledgedWasConsumed
PROPERTIES ConfirmationNotAbandoned DirectIsSettled
CHECK_DEADLOCK FALSE
