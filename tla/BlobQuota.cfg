SPECIFICATION Spec
CONSTANTS
    u1 = u1
    Users = {u1}
    Blobs = {b1, b2, b3}
    Folders = {}
    FolderOwner <- OneOwner
    Reqs = {r1, r2}
    OrphanJob = OrphanJob
    TrashJob = TrashJob
    None = None
    Sizes = {2, 3}
    MaxUploadBytes = 2
    QuotaBytes = 3
    Failing = {}
CONSTRAINT OneAgeing
SYMMETRY Symmetry
INVARIANTS QuotaOvershootBounded PurgedObjectIsOwed
