CONSTANTS
    Requests = {r1, r2}
    Ops = {a}
    Fees = {f}
    MaxNonce = 1
SPECIFICATION Spec
INVARIANT ConcurrentNoncesDiffer
