SPECIFICATION FairSpec
CONSTANTS
    Users = {u1, u2}
    FolderIds = {f1, f2, f3}
    Names = {n1, n2}
    Reqs = {r1, r2}
    Client <- OneEach
    None = None
    DepthLimit = 3
INVARIANTS OwnTree ForestOnePerUser LiveUnderLive PurgeNeverBlocked TrashIsListed
PROPERTIES TrashedFolderLeaves RestoreIsWhole
