SPECIFICATION SwapSpec
CONSTANTS
    k1 = k1
    k2 = k2
    k3 = k3
    k4 = k4
    k5 = k5
    Keys = {k1, k2, k3, k4, k5}
    Values = {v1}
    NoKey = NoKey
    NoValue = NoValue
    ChunkNum = 4
    kMaxSize = 1
    MaxOverflow = 2
    MaxLoadFactor = 100
    Home <- HomeOf4
    Sign <- SignOf4
SYMMETRY TwinKeys
INVARIANTS TypeOK StoredKeysFound AlwaysValid
PROPERTIES ImplementsMap SwapKeepsContents CountsStayExact
