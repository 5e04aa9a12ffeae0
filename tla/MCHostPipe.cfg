SPECIFICATION Spec
CONSTANTS
    Directions = {"write", "read"}
    PacketSize = 1
    Depth = 4
    MaxBytes = 7
    MapSizes = {0, 1, 2}
    HeldAcrossBinding = FALSE
    Overlapping = FALSE
INVARIANTS AckedIsReleased InOrder AssertionsHold RegionsUnmap
CHECK_DEADLOCK FALSE
