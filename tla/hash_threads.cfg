SPECIFICATION ThreadsSpec
CONSTANTS
    k1 = k1
    k2 = k2
    k3 = k3
    Keys = {k1, k2, k3}
    Values = {k1, k2, k3}
    NoKey = NoKey
    NoValue = NoValue
    NoTag = NoTag
    NoThread = NoThread
    ChunkNum = 4
    kMaxSize = 1
    MaxOverflow = 5
    MaxLoadFactor = 100
    Home <- HomeOf3
    Sign <- SignOf3
    Writers = {w1, w2}
    Readers = {r1}
SYMMETRY WriterSymmetry
INVARIANTS ReadsOwnValue PresentKeysFound QuietTableSound
