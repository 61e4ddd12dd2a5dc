SPECIFICATION MCSpec
CONSTANTS
    e1 = e1
    e2 = e2
    t1 = t1
    t2 = t2
    x1 = x1
    x2 = x2
    s1 = s1
    s2 = s2
    q1 = q1
    q2 = q2
    h1 = h1
    h2 = h2
    p1 = p1
    Every = Every
    Own = Own
    Other = Other
    Absent = Absent
    Keep = Keep
    Free = Free
    NoReg = NoReg
    Nobody = Nobody
    Regs = {s1}
    Handlers = {q1}
    Forms <- SubForms
    Ops = {"create", "update", "delete", "reg"}
    MaxAsks = 3
    MaxFails = 1
    MaxHops = 2
CHECK_DEADLOCK FALSE
INVARIANT EveryTypeOK
INVARIANT ProxiedStaysOut
 
INVARIANT BatchFaithful
 
 
PROPERTY OnlyCreateRevives
