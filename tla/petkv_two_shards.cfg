SPECIFICATION Spec
CONSTANTS
    w1 = w1
    w2 = w2
    r1 = r1
    r2 = r2
    r3 = r3
    k1 = k1
    k2 = k2
    b1 = b1
    b2 = b2
    b3 = b3
    b4 = b4
    s1 = s1
    s2 = s2
    NoThread = NoThread
    NoBlock = NoBlock
    NoKey = NoKey
    Threads = {w1, w2, r1}
    Writers = {w1, w2}
    Readers = {r1}
    Unprotected = {}
    UseSglist = FALSE
    Shards = {s1, s2}
    Keys = {k1, k2}
    Blocks = {b1, b2, b3, b4}
    GetShard <- TwoShardsOfKey
    Pool <- TwoShardsPool
    MaxThreadNum = 1
    StartIndex <- MCStartIndex
    MaxEpoch = 5
    BumpPeriod = 1
    FullSize = 9
    MaxCompletions = 1
SYMMETRY BlockSymmetry
INVARIANTS TypeOK EarlyReadersSafe NoDoubleFree BlocksAccounted LiveEntriesSound
