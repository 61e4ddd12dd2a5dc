CONSTANTS
    Entities = {e1}
    Writers = {w1}
    Drains = {d1}
    Matchers = {m1}
    MaxSeq = 1
    PageSize = 1
    MaxFaults = 0
    DurableFirst = TRUE
    Lags = TRUE
    ReadFails = FALSE
    Kinds = {"updated"}
SPECIFICATION Spec
CHECK_DEADLOCK FALSE
INVARIANT NotifiesNobody
