SPECIFICATION Spec
CONSTANTS
    p1 = p1
    q1 = q1
    s1 = s1
    w1 = w1
    r1 = r1
    u1 = u1
    k2 = k2
    l2 = l2
    m2 = m2
    r2 = r2
    w2 = w2
    e2 = e2
    h2 = h2
    n2 = n2
    u2 = u2
    k3 = k3
    m3 = m3
    d1 = d1
    d2 = d2
    d3 = d3
    a1 = a1
    a2 = a2
    a3 = a3
    b1 = b1
    b2 = b2
    p = p
    q = q
    None = None
    Commands =
      {p1, q1, s1, w1, r1, u1, k2, l2, m2, r2, w2, e2, h2, n2, u2, k3, m3}
    Command <- MCCommand
    Workloads <- AllWorkloads
    Reused <- ReusedCommands
    Devices = {d1, d2, d3}
    Accels = {a1, a2, a3}
    Buffers = {b1, b2}
    UserMemory = {b1}
    Binaries = {p, q}
    MaxOps = 4
    FullDuplex = {d2}
INVARIANTS
    SlotsRecycled
    GroupInSequence
    ConflictFree
    KernelRunsOnItsBinary
    CompletedOnce
    NothingLeftToStart
PROPERTY BuffersStay
