SPECIFICATION SessionSpec
CONSTANTS
    None = None
    Own = 1
    ObjectId = {1, 2}
    Kind = {"client", "node", "link"}
    Proxy = {1, 2, 3, 4}
    KindsOf <- TwoKinds
    MaxObjects = 2
    MaxInitial = 2
INVARIANTS SessionMirrors
CHECK_DEADLOCK FALSE
