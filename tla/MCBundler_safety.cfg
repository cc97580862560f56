CONSTANTS
    Requests = {r1, r2, r3}
    Ops = {a}
    Fees = {f, g}
    MaxNonce = 2
SPECIFICATION Spec
SYMMETRY Symmetry
INVARIANTS TypeOK NoSelfCollision DistinctNonces GapOnlyFromRelease AnswersAreTrue
           OneOkPerOperation OneLateSend
