SPECIFICATION FairSpec
CONSTANTS
    k1 = k1
    k2 = k2
    l1 = l1
    t1 = t1
    x1 = x1
    x2 = x2
    x3 = x3
    m3 = m3
    b3 = b3
    c3 = c3
    y1 = y1
    y2 = y2
    y3 = y3
    u = u
    w1 = w1
    w2 = w2
    i = i
    o = o
    uq = uq
    a = a
    b = b
    None = None
    Commands = {k1, k2, l1, t1, x1, x2, x3, m3, b3, c3, y1, y2, y3, u, w1, w2}
    Command <- MCCommand
    Workloads <- AllWorkloads
    Kept = {k1, l1, t1, m3, y1, y2}
    Queues = {i, o, uq}
    InOrder = {i}
    UserQueue = uq
    Accels = {a, b}
    RingSize <- MCRingSize
    Slots = 2
    UserStatuses <- MCUserStatuses
INVARIANTS
    CountsItsCommands
    CountsItsSubmissions
    FreedIsForgotten
    NothingLeftToDo
    AssertionsHold
PROPERTIES
    StartsInOrder
    CommandsFinish
CHECK_DEADLOCK FALSE
