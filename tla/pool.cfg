SPECIFICATION LiveSpec
CONSTANTS
    t1 = t1
    t2 = t2
    t3 = t3
    c1 = c1
    c2 = c2
    c3 = c3
    small = small
    large = large
    NoThread = NoThread
    NoSize = NoSize
    NoChunk = NoChunk
    Threads = {t1, t2}
    Chunks = {c1, c2}
    Sizes = {small, large}
    MaxEntryNumber <- TwoSizes
    MaxRestarts = 1
INVARIANTS TypeOK NewSucceeds BlocksExclusive BitsAccounted CountersExact TotalExact ChunksPartitioned
PROPERTY NewFinishes
