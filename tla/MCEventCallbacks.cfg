SPECIFICATION Spec
CONSTANTS
    t1 = t1
    t2 = t2
    m = m
    x = x
    y = y
    u = u
    cm = cm
    cx = cx
    cx2 = cx2
    cy = cy
    cu = cu
    None = None
    Threads = {t1, t2}
    Program <- MarkerFirst
    Markers = {m}
    UserEvents = {u}
    Waits <- MCWaits
    Callbacks = {cm, cx, cx2, cy, cu}
    Callback <- MCCallback
    UsesMemory = {x, y}
    Hosts <- SafeHosts
INVARIANTS
    CalledOnce
    InOrder
    QueueHoldsUnpopped
    AssertionsHold
    Reclaimed
