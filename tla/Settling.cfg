CONSTANTS
    Entities = {"e1", "e2"}
    Writers = {"w1", "w2"}
    Drains = {"d1"}
    Matchers = {"m1"}
    MaxSeq = 2
    PageSize = 2
    MaxFaults = 2
    DurableFirst = TRUE
    Lags = FALSE
    ReadFails = FALSE
    Kinds = {"small", "updated"}
    a1 = a1
    a2 = a2
    a3 = a3
    NoAttempt = NoAttempt
SPECIFICATION MCSpec
CHECK_DEADLOCK FALSE
INVARIANT NoEventLost
INVARIANT EntityOrder
 
INVARIANT DeliveryTruthful
PROPERTY EveryAttemptSettles
PROPERTY ImplementsFeed
