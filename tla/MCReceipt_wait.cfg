CONSTANTS
    U64Max = 3
    InitialBackoff = 1
    MaxBackoff = 2
    Timeout = 7
    Overshoot = 1
    Horizon = 10
    RevertData <- SomeReverts
SPECIFICATION ReceiptFairSpec
INVARIANTS ReceiptTypeOK TimeoutIsHonest PromptPolls PollsStopAtDeadline RevertReasonIsReal
PROPERTY WaitEnds
