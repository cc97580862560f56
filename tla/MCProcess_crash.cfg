CONSTANTS
    Requests = {r1, r2}
    Ops = {a}
    Fees = {f}
    MaxNonce = 1
    Chains = {c}
    EntryPoints = {e}
    MaxRestarts = 1
SPECIFICATION ProcWedgedSpec
INVARIANTS ProcTypeOK NoSelfCollision
PROPERTIES Implements ShutdownCompletes
