CONSTANTS
    Requests = {r1, r2}
    Ops = {a, b}
    Fees = {f}
    MaxNonce = 1
SPECIFICATION WedgedSpec
PROPERTIES Implements EveryRequestAnswered ShutdownDrains
