CONSTANTS
    U64Max = 3
    InitialBackoff = 1
    MaxBackoff = 2
    Timeout = 2
    Overshoot = 1
    Horizon = 5
    RevertData <- FewReverts
SPECIFICATION ReceiptSpec
INVARIANT WaitBounded
