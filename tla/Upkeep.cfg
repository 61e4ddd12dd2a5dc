SPECIFICATION MCSpec
CONSTANTS
    s1 = s1
    s2 = s2
    t1 = t1
    t2 = t2
    x1 = x1
    NoTime = NoTime
    Null = Null
    d1 = d1
    d2 = d2
    d3 = d3
    NoMap = NoMap
    NoAsk = NoAsk
    Subs = {s1, s2}
    Tenants = {t1, t2}
    TenantOf <- TwoTenants
    Handlers = {"h1", "h2"}
    Ops = {"create", "delete"}
    Mirrored = TRUE
    Interval = 2
    Backstop = 1
    MaxTime = 4
    MaxOps = 3
CHECK_DEADLOCK FALSE
INVARIANT EveryTypeOK
INVARIANT MapsAndPages
PROPERTY OncePerPeriod
PROPERTY HistoryFaithful
 
 
