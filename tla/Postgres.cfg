CONSTANTS
    w1 = w1
    w2 = w2
    d1 = d1
    d2 = d2
    m1 = m1
    m2 = m2
    c1 = c1
    c2 = c2
    Keys <- MCKeys
    Asks <- MCAsks
    Clients = {c1, c2}
    Default = 0
    MaxTime = 2
    MaxCalls = 3
    MaxFaults = 1
    Absent = Absent
SPECIFICATION MCSpec
CHECK_DEADLOCK FALSE
SYMMETRY Interchangeable
INVARIANT TypeOK
INVARIANT RowsAccounted
 
PROPERTY RowsKeepContract
