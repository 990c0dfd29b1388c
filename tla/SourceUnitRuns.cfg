SPECIFICATION FairSpec
CONSTANTS
    Payloads = {p1, p2}
    NoPayload = NoPayload
    Options <- FourSources
    MaxRuns = 3
    MaxSequence = 3
    MaxEpoch = 1
CHECK_DEADLOCK FALSE
INVARIANTS TypeOK RunsAreShared NewestRunWins CleanupsRunOnce CacheCatchesUp
PROPERTIES LoadingEnds
