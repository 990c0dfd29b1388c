SPECIFICATION Spec
CONSTANTS
    Payloads = {p1, p2}
    NoPayload = NoPayload
    Options <- OnlyPlain
    MaxRuns = 3
    MaxSequence = 3
    MaxEpoch = 0
CHECK_DEADLOCK FALSE
SYMMETRY Symmetry
INVARIANTS LatestLoadWins
