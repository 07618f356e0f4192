SPECIFICATION RecoverySpec
CONSTANTS
    k0 = k0
    k1 = k1
    k2 = k2
    k3 = k3
    b1 = b1
    b2 = b2
    b3 = b3
    d1 = d1
    d2 = d2
    s1 = s1
    s2 = s2
    Keys = {k0, k1, k2, k3}
    Values = {b1, b2, b3}
    NoKey = NoKey
    ZeroKey = k0
    NoValue = NoValue
    ChunkNum = 2
    kMaxSize = 1
    MaxOverflow = 3
    MaxLoadFactor = 100
    Home <- HomeOf
    Sign <- SignOf
    Shards = {s1, s2}
    FileSizes <- Sizes
    Align = 2
    Store = s1
    Data = {d1, d2}
    MaxUpdates = 4
    MaxStarts = 3
CHECK_DEADLOCK FALSE
SYMMETRY Swaps
INVARIANT StartSucceeds
