CONSTANTS
    Subs = {"s1"}
    Attempts = {a1, a2}
    a1 = a1
    a2 = a2
    a3 = a3
    Handlers = {"h1"}
    Replayers = {"r1"}
    MaxAttempts = 2
    Serial = TRUE
    StoreFails = FALSE
    NoAttempt = NoAttempt
    MaxWrites = 1
SPECIFICATION Spec
CHECK_DEADLOCK FALSE
INVARIANT LastSuccessTruthful
