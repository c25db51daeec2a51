SPECIFICATION FairSpec
CONSTANTS
    Users = {u1}
    Devices = {d1}
    SessionIds = {s1, s2}
    Tokens = {t1, t2}
    Reqs = {r1, r2}
    None = None
    AccessTTL = 2
    RefreshTTL = 1
    MaxTime = 2
    FailAt <- HalfWay
INVARIANTS BlockOutlivesTokens
PROPERTIES ReuseEndsSession SpentSessionEnds
