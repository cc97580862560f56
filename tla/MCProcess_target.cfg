CONSTANTS
    Requests = {r1}
    Ops = {a}
    Fees = {f}
    MaxNonce = 1
    Chains = {c, d}
    EntryPoints = {e, h}
    MaxRestarts = 1
SPECIFICATION ProcSpec
INVARIANT SignedForTarget
