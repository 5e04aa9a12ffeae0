CONSTANTS
    P = P
    S = S
    T = T
    V = V
    O = O
    v1 = v1
    v2 = v2
    d1 = d1
    d2 = d2
    Undefined = v1
    NoDevice = NoDevice
    Buffers = {P, S, T, V, O}
    Parent = P
    ReadOnly = {O}
    Cells = {1, 2}
    Cover <- MCCover
    Values = {v1, v2}
    Devices = {d1, d2}
    KernelArgs <- MCKernelArgs
    Programs <- EnqueueFirst
SYMMETRY Alike
VIEW ExceptLast
SPECIFICATION Spec
PROPERTY RefinesMemory
