SPECIFICATION Spec
CONSTANTS
    x1 = x1
    Attrs = {x1}
    Times = {1}
    NoTime = NoTime
    Null = Null
    Values = {1, 2}
    Handlers = {1, 2}
    Ops = {"write", "delete", "delete_attr", "upsert", "add", "delete_temporal", "delete_temporal_attr", "modify", "delete_instance"}
    Locking = FALSE
    Record = "all"
    MaxAttempts = 16
    MaxAsks = 3
    MaxFails = 1
CHECK_DEADLOCK FALSE
INVARIANT NoOrphanHistory
