CONSTANTS
    U64Max = 3
    InitialBackoff = 1
    MaxBackoff = 1
    Timeout = 1
    Overshoot = 1
    Horizon = 3
    RevertData <- AllReverts
SPECIFICATION ReceiptSpec
INVARIANT ExpiryHasItsCode
