SPECIFICATION FairSpec
CONSTANTS
    a1 = a1
    a2 = a2
    a3 = a3
    a4 = a4
    a5 = a5
    i1 = i1
    i2 = i2
    i3 = i3
    i4 = i4
    p1 = p1
    p2 = p2
    q1 = q1
    d1 = d1
    d2 = d2
    s1 = s1
    s2 = s2
    s3 = s3
    task = task
    range = range
    NoJob = NoJob
    Unset = Unset
    Accels = {a1, a2, a3, a4, a5}
    Jobs = {i1, i2, i3, i4, p1, p2, q1, d1, d2, s1, s2, s3}
    Job <- MCJob
    Size <- MCSize
    InFront <- MCInFront
    Overtaken <- MCOvertaken
    Printing = {a2, a3, a5}
    Streaming = {a4}
    Csr181 = {a3}
    DefaultImage = task
    MaxStalls <- MCMaxStalls
    Dumps = {a3}
    Resets = {{a2}}
    MaxOvertakes <- MCMaxOvertakes
    LaunchAfterReset = FALSE
    Stray = {NoJob}
    Workloads <- AllWorkloads
INVARIANTS SlotFreeAtLaunch OldestIsNext RunsItsInvocation StallIsSeen
PROPERTIES RefinesFifo LaunchedEnds
CHECK_DEADLOCK FALSE
