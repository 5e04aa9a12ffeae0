SPECIFICATION FairSpec
CONSTANTS
    t1 = t1
    t2 = t2
    t3 = t3
    Threads <- ThreeThreads
    NoThread = NoThread
    MaxSignals = 1
    WaitKinds <- Untimed
PROPERTIES
    WaitersReturn
