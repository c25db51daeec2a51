SPECIFICATION BrowserSpec
CONSTANTS
    Users = {u1}
    Devices = {d1, d2}
    SessionIds = {s1, s2}
    Tokens = {t1, t2, t3}
    Reqs = {r1, r2}
    None = None
    AccessTTL = 1
    RefreshTTL = 1
    MaxTime = 1
    FailAt <- MidRotation
CONSTRAINT NotBoth
SYMMETRY Symmetry
INVARIANTS TypeOK HonestBrowserIsSafe OneSessionPerDevice RotationNeverForks
PROPERTIES DeadSessionStaysDead
