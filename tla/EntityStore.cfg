SPECIFICATION FairSpec
CONSTANTS
    Ids = {i1, i2}
    Keys = {k1, k2}
    Values = {v1, v2}
    NoEntity = NoEntity
    OrphanRetentionTtl = 1
    HasTimeoutRuntime = TRUE
    BatchOne <- UpdateOneBatch
    BatchMany <- UpdateManyBatch
    BatchThreshold = 2
    MaxTime = 3
INVARIANTS TypeOK IndexesAgree OnlyOrphansExpire
PROPERTIES NoMemberLosesItsEntity RetentionHonoured DeferredWorkIsDone
