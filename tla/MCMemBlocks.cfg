SPECIFICATION Spec
CONSTANTS
    a = a
    b = b
    c = c
    D1 = D1
    D2 = D2
    k1 = k1
    k2 = k2
    k3 = k3
    k4 = k4
    k5 = k5
    k6 = k6
    m1 = m1
    m2 = m2
    NoBlock = NoBlock
    Mems = {a, b, c}
    Devices = {D1, D2}
    Commands = {k1, k2, k3, k4, k5, k6, m1, m2}
    Command <- MCCommand
    Workloads <- MCWorkloads
    Terminable = {k3, k5}
    Transfers <- MCTransfers
    Size <- MCSize
    Bank <- MCBank
    Memory <- MCMemory
INVARIANTS
    BlocksDisjoint
    PromiseKept
    NoBlockLost
    FirstFitFindsRoom
