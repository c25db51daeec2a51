SPECIFICATION ApiFairSpec
CONSTANTS
    MaxEvents = 2
    QueueSize = 1
    Faults = TRUE
    Files = {x1}
    Folders = {d1}
    Shares = {s1}
    SharedFile <- MCSharedFile
    OwnerReqs = {o1}
    GuestReqs = {g1}
    Start <- MCStart
    None = None
INVARIANTS TrailInOrder NothingLostSilently AcknowledgedIsReported TrailTellsState
PROPERTY EventSettled
