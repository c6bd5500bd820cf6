SPECIFICATION HiddenSyncSpec
CONSTANTS
    None = None
    Torn = Torn
    Instance = {i1, i2}
    Name = {a, b}
    Inode = {n1, n2, n3}
    MaxPending = 1
INVARIANTS NeverLeftHalfWritten
CHECK_DEADLOCK FALSE
