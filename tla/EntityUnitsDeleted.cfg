SPECIFICATION MCSpec
CONSTANTS
    i1 = i1
    i2 = i2
    k1 = k1
    k2 = k2
    Parts <- OnlyShared
    Ids <- TwoIds
    Keys <- TwoKeys
    Values = {v1, v2}
    NoEntity = NoEntity
    OrphanRetentionTtl = 0
    HasTimeoutRuntime = TRUE
    BatchOne = TRUE
    BatchMany = TRUE
    BatchThreshold = 2
    MaxTime = 0
    Sources <- OnlyK1
    Listening <- TwoKeys
    Lists <- NoRepeats
    MayDelete = TRUE
    NoCall = NoCall
SYMMETRY ValueSymmetry
PROPERTIES ListedEntitiesStay
