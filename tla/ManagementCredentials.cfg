SPECIFICATION FairSpec
CONSTANTS
    t1 = t1
    t2 = t2
    t3 = t3
    Threads <- MCThreads
    NoThread = NoThread
    MaxTokens = 3
INVARIANTS TypeOK OneTokenAtATime LastTokenPublished
PROPERTY EveryCallEnds
