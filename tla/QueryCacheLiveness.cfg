SPECIFICATION FairSpec
CONSTANTS
    t1 = t1  t2 = t2  k1 = k1  k2 = k2  v1 = v1  v2 = v2  e1 = e1  e2 = e2  e3 = e3  e4 = e4
    Threads = {t1}
    Keys = {k1}
    Values = {v1}
    Entries = {e1, e2, e3, e4}
    NumPartitions = 2
    PartitionOf <- MCPartitionOf
    TTLs = {1}
    HashExpireMax = 2
    HashExpireDefault = 1
    MaxMemory = 4
    ThresholdPctMin = 0
    PurgeLoop = 1
    PurgeTime = 2
    MinChunk = 2
    MaxTime = 2
    NoEntry = NoEntry
    NoKey = NoKey
    Miss = Miss
INVARIANT PurgeInBounds
PROPERTIES CallsReturn ExpiredIsPurged
