SPECIFICATION Spec
CONSTANTS
    t1 = t1
    t2 = t2
    t3 = t3
    Threads <- ThreeThreads
    NoThread = NoThread
    MaxSignals = 2
    WaitKinds <- AllKinds
SYMMETRY ThreadSymmetry
INVARIANTS WakeupsConserved OneActiveWaiter NoStrandedWaiter
