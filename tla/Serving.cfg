CONSTANTS
    c1 = c1
    c2 = c2
    t1 = t1
    e1 = e1
    Conns = {c1, c2}
    Tasks = {t1}
    Entities = {e1}
    Nobody = Nobody
    MaxConnections = 2
    QueueLimit = 1
    BatchLimit = 2
    UsizeMod = 8
    MaxChanges = 2
    e2 = e2
    y1 = y1
    x1 = x1
    x2 = x2
    s1 = s1
    s2 = s2
    Every = Every
    Own = Own
    Absent = Absent
    Nothing = Nothing
    MaxHops = 2
SPECIFICATION MCSpec
CHECK_DEADLOCK FALSE
INVARIANT TypeOK
 
INVARIANT EachChangeOnce
INVARIANT DrainLeavesNothing
INVARIANT ReadsRight
PROPERTY HooksInCommitOrder
PROPERTY QueuedIsMatched
PROPERTY StopAndWalkEnd
