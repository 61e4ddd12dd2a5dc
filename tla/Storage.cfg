CONSTANTS
    c1 = c1
    c2 = c2
    Keys <- StoreKeys
    Asks <- StoreAsks
    Clients = {c1, c2}
    MaxTime = 2
    MaxCalls = 3
    MaxFaults = 1
    Limit = 1
    Absent = Absent
    Nobody = Nobody
SPECIFICATION Spec
CHECK_DEADLOCK FALSE
SYMMETRY StoreSymmetry
INVARIANT TypeOK
INVARIANT FeedTrue
INVARIANT WalkComplete
PROPERTY ImplementsStore
