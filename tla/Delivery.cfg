CONSTANTS
    Subs = {"s1"}
    Attempts = {a1, a2}
    a1 = a1
    a2 = a2
    a3 = a3
    Handlers = {"h1"}
    Replayers = {"r1"}
    MaxAttempts = 2
    Serial = FALSE
    StoreFails = TRUE
    NoAttempt = NoAttempt
    MaxWrites = 2
SPECIFICATION Spec
CHECK_DEADLOCK FALSE
SYMMETRY AttemptSymmetry
INVARIANT TypeOK
INVARIANT CountersExact
INVARIANT MirrorNeverAhead
INVARIANT LetterMeansUndelivered
INVARIANT SentWasBooked
