SPECIFICATION FairSessionSpec
CONSTANTS
    None = None
    Own = 1
    ObjectId = {1, 2}
    Kind = {"client", "node"}
    Proxy = {1, 2, 3, 4}
    KindsOf <- Kinds
    MaxObjects = 2
    MaxInitial = 2
INVARIANTS ListenersHaveProxies ReadyAfterInitial SessionMirrors KnownAreHeard
PROPERTIES FreedOutsideCallbacks EventuallyReady JoinReturns
CHECK_DEADLOCK FALSE
