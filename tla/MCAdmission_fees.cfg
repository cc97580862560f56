CONSTANTS
    U128Max = 3
    MinPriorityFee = 1
    GasMarginPct = 10
    U64Max = 255
    AddrSpace = 3
    TimeSpace = 4
    MaxBatchSize = 2
    BaseFees = {0, 1, 2}
    Tips = {0, 2}
    Clocks = {1}
    Deposits = {14}
    Estimates = {20, 26, 255}
    UserOps <- FeeOps
    Windows <- AnyWindow
SPECIFICATION AdmissionSpec
INVARIANTS AdmissionTypeOK OuterFeesSound
