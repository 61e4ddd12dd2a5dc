CONSTANTS
    c1 = c1
    c2 = c2
    t1 = t1
    e1 = e1
    Conns = {c1, c2}
    Tasks = {}
    Entities = {e1}
    Nobody = Nobody
    MaxConnections = 2
    QueueLimit = 2
    BatchLimit = 2
    UsizeMod = 8
    MaxChanges = 2
SPECIFICATION Spec
CHECK_DEADLOCK FALSE
INVARIANT ChangesInCommitOrder
