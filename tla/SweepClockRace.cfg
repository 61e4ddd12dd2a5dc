CONSTANTS
    s1 = s1
    s2 = s2
    t1 = t1
    t2 = t2
    Subs = {s1, s2}
    Tenants = {t1, t2}
    TenantOf <- TwoTenants
    Handlers = {"h1"}
    Ops = {"create"}
    Mirrored = TRUE
    Interval = 2
    Backstop = 1
    MaxTime = 5
    MaxOps = 2
SPECIFICATION Spec
CHECK_DEADLOCK FALSE
INVARIANT NeverOvertaken
