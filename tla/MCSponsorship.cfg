CONSTANTS
    Requests = {r1, r2}
    Ops <- MCOps
    Sponsors = {"p", "q"}
    Sponsor <- MCSponsor
    Prefund <- MCPrefund
    MaxDeposit = 2
    MaxBatchSize = 2
    GasUses = {3, 4, 5}
    GasMarginPct = 50
    U64Max = 240
SPECIFICATION SponsorshipSpec
SYMMETRY RequestSymmetry
INVARIANTS SponsorshipTypeOK LossNeedsInterference
