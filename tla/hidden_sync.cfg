SPECIFICATION FairHiddenSyncSpec
CONSTANTS
    None = None
    Torn = Torn
    Instance = {i1, i2}
    Name = {a}
    Inode = {n1, n2, n3}
    MaxPending = 1
INVARIANTS InstancesAgree AloneNeverHalfWritten
PROPERTIES SettlesDown
CHECK_DEADLOCK FALSE
