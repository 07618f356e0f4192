SPECIFICATION Spec
CONSTANTS
    Keys = {1, 2, 3}
    Hash <- HashOf
    Deployments = {1, 2}
    WarmCapacity = 2
    WarmThreads = 3
    CheckThreads = 1
    ThreadNum <- MCThreadNum
    Clients = {c1}
    AsyncReqNum = 2
    Batch = 2
    Samples <- MCSamples
    MaxKvNum = 2
    ShardCut = 500
    FinishMagic = FinishMagic
    Ack = Ack
    Blank = Blank
    MaxRequests = 3
CHECK_DEADLOCK FALSE
INVARIANTS TypeOK WarmKeysServed ReportsTruth ClientMeetsServers AnswersOwnKeys
PROPERTIES ClusterStarts RequestsFinish
