SPECIFICATION MCSpec
CONSTANTS
    i1 = i1
    i2 = i2
    k1 = k1
    k2 = k2
    Parts <- AllParts
    Ids <- OneId
    Keys <- TwoKeys
    Values = {v1, v2}
    NoEntity = NoEntity
    OrphanRetentionTtl = 1
    HasTimeoutRuntime = TRUE
    BatchOne = TRUE
    BatchMany = TRUE
    BatchThreshold = 2
    MaxTime = 2
    Sources <- OnlyK1
    Listening <- OnlyK2
    Lists <- OneIdLists
    MayDelete = TRUE
    NoCall = NoCall
SYMMETRY ValueSymmetry
INVARIANTS StalenessIsKnown ListsAreReplaced
PROPERTIES SettledRunIsHeard EntitiesStay
