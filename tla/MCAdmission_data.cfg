CONSTANTS
    U128Max = 3
    MinPriorityFee = 1
    GasMarginPct = 10
    U64Max = 255
    AddrSpace = 3
    TimeSpace = 4
    MaxBatchSize = 2
    BaseFees = {1}
    Tips = {1}
    Clocks = {0, 1, 2, 3, 4}
    Deposits = {6, 9, 14}
    Estimates = {20}
    UserOps <- DataOps
    Windows <- SomeWindows
SPECIFICATION AdmissionSpec
INVARIANTS PackedFaithful PrefundCovered WindowsHonoured RejectionsAreTrue
