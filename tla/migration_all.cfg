SPECIFICATION MigrationSpec
CONSTANTS
    k1 = k1
    k2 = k2
    k3 = k3
    k4 = k4
    k5 = k5
    Keys = {k1, k2, k3, k4, k5}
    Values = {v1}
    NoKey = NoKey
    NoValue = NoValue
    ChunkNum = 4
    kMaxSize = 2
    MaxOverflow = 2
    MaxLoadFactor = 50
    Home <- HomeOf4
    Sign <- SignOf4
INVARIANT MigratedKeysFound
